---- MODULE Spec2Model ----
(***************************************************************************)
(* State-machine model of the entity-resolution and relationship engine of *)
(* mixview (backend/aggregator.py) together with the name normalizer it    *)
(* relies on (backend/normalization.py).                                   *)
(*                                                                         *)
(* Text is modelled as a sequence of characters, one string per character, *)
(* so that the normalizer's character-level steps (case folding, accent    *)
(* stripping, suffix/prefix removal, regular-expression substitutions and  *)
(* the difflib ratio) are computed as the code computes them.  A non-ASCII *)
(* character is written by name: "o_uml" is U+00F6, "O_uml" is U+00D6,     *)
(* "o_slash" is U+00F8, "en_dash" is U+2013 and "em_dash" is U+2014.       *)
(***************************************************************************)
EXTENDS Integers, Sequences, FiniteSets, TLC

(***************************************************************************)
(* Python values                                                           *)
(***************************************************************************)
\* None for the atomic (string) columns: provider ids and image urls
NULL == "NULL"
\* None for a text value (name, title, description)
NoneText == << NULL >>
\* Python truthiness of an atomic string value ("not x")
Falsy(x) == x = NULL \/ x = ""
\* Python truthiness of a text value: None and "" are both falsy
FalsyText(t) == t = NoneText \/ t = << >>

(***************************************************************************)
(* Characters                                                              *)
(***************************************************************************)
UpperChars == << "A", "B", "C", "D", "E", "F", "G", "H", "I", "J", "K", "L", "M", "N", "O", "P", "Q", "R", "S", "T", "U", "V", "W", "X", "Y", "Z" >>
LowerChars == << "a", "b", "c", "d", "e", "f", "g", "h", "i", "j", "k", "l", "m", "n", "o", "p", "q", "r", "s", "t", "u", "v", "w", "x", "y", "z" >>
DigitChars == { "0", "1", "2", "3", "4", "5", "6", "7", "8", "9" }
Range(s) == { s[i] : i \in 1..Len(s) }
\* str.lower() on one character
ToLower(c) ==
    IF \E i \in 1..Len(UpperChars) : UpperChars[i] = c
    THEN LowerChars[CHOOSE i \in 1..Len(UpperChars) : UpperChars[i] = c]
    ELSE IF c = "O_uml" THEN "o_uml" ELSE c
\* regular-expression class \s
IsSpace(c) == c = " "
\* regular-expression class \w (Unicode-aware, as in Python 3)
IsWordChar(c) == c \in Range(UpperChars) \cup Range(LowerChars) \cup DigitChars \cup {"_", "o_uml", "O_uml"}
\* unicodedata.normalize('NFKD', c).encode('ASCII', 'ignore'): a decomposable
\* letter keeps its base letter, any other non-ASCII character is dropped
AsciiFold(c) ==
    IF c = "o_uml" THEN << "o" >>
    ELSE IF c = "O_uml" THEN << "O" >>
    ELSE IF c = "o_slash" THEN << >>
    ELSE << c >>

(***************************************************************************)
(* String helpers                                                          *)
(***************************************************************************)
Lower(s) == [i \in 1..Len(s) |-> ToLower(s[i])]
RECURSIVE LStrip(_)
LStrip(s) == IF s # << >> /\ IsSpace(Head(s)) THEN LStrip(Tail(s)) ELSE s
RECURSIVE RStrip(_)
RStrip(s) == IF s # << >> /\ IsSpace(s[Len(s)]) THEN RStrip(SubSeq(s, 1, Len(s) - 1)) ELSE s
Strip(s) == RStrip(LStrip(s))
StartsWith(s, p) == Len(p) <= Len(s) /\ SubSeq(s, 1, Len(p)) = p
EndsWith(s, p) == Len(p) <= Len(s) /\ SubSeq(s, Len(s) - Len(p) + 1, Len(s)) = p
RECURSIVE Flatten(_)
Flatten(ss) == IF ss = << >> THEN << >> ELSE Head(ss) \o Flatten(Tail(ss))
\* s contains p as a contiguous substring ("p in s")
Contains(s, p) == \E i \in 1..(Len(s) - Len(p) + 1) : SubSeq(s, i, i + Len(p) - 1) = p

(***************************************************************************)
(* MusicNameNormalizer                                                     *)
(***************************************************************************)
IGNORE_PREFIXES ==
    << <<"t", "h", "e", " ">>,
       <<"a", " ">>,
       <<"a", "n", " ">> >>

STRIP_SUFFIXES ==
    << <<"(", "r", "e", "m", "a", "s", "t", "e", "r", "e", "d", ")">>,
       <<"(", "r", "e", "m", "a", "s", "t", "e", "r", ")">>,
       <<"[", "r", "e", "m", "a", "s", "t", "e", "r", "e", "d", "]">>,
       <<"[", "r", "e", "m", "a", "s", "t", "e", "r", "]">>,
       <<"(", "d", "e", "l", "u", "x", "e", " ", "e", "d", "i", "t", "i", "o", "n", ")">>,
       <<"(", "d", "e", "l", "u", "x", "e", ")">>,
       <<"[", "d", "e", "l", "u", "x", "e", " ", "e", "d", "i", "t", "i", "o", "n", "]">>,
       <<"[", "d", "e", "l", "u", "x", "e", "]">>,
       <<"(", "e", "x", "p", "a", "n", "d", "e", "d", " ", "e", "d", "i", "t", "i", "o", "n", ")">>,
       <<"(", "e", "x", "p", "a", "n", "d", "e", "d", ")">>,
       <<"[", "e", "x", "p", "a", "n", "d", "e", "d", " ", "e", "d", "i", "t", "i", "o", "n", "]">>,
       <<"[", "e", "x", "p", "a", "n", "d", "e", "d", "]">>,
       <<"(", "b", "o", "n", "u", "s", " ", "t", "r", "a", "c", "k", " ", "v", "e", "r", "s", "i", "o", "n", ")">>,
       <<"(", "b", "o", "n", "u", "s", " ", "t", "r", "a", "c", "k", "s", ")">>,
       <<"[", "b", "o", "n", "u", "s", " ", "t", "r", "a", "c", "k", "s", "]">>,
       <<"(", "a", "n", "n", "i", "v", "e", "r", "s", "a", "r", "y", " ", "e", "d", "i", "t", "i", "o", "n", ")">>,
       <<"[", "a", "n", "n", "i", "v", "e", "r", "s", "a", "r", "y", " ", "e", "d", "i", "t", "i", "o", "n", "]">>,
       <<"(", "s", "p", "e", "c", "i", "a", "l", " ", "e", "d", "i", "t", "i", "o", "n", ")">>,
       <<"[", "s", "p", "e", "c", "i", "a", "l", " ", "e", "d", "i", "t", "i", "o", "n", "]">>,
       <<"-", " ", "r", "e", "m", "a", "s", "t", "e", "r", "e", "d">>,
       <<"-", " ", "r", "e", "m", "a", "s", "t", "e", "r">>,
       <<"-", " ", "d", "e", "l", "u", "x", "e">>,
       <<"-", " ", "e", "x", "p", "a", "n", "d", "e", "d">>,
       <<"(", "o", "r", "i", "g", "i", "n", "a", "l", " ", "m", "o", "t", "i", "o", "n", " ", "p", "i", "c", "t", "u", "r", "e", " ", "s", "o", "u", "n", "d", "t", "r", "a", "c", "k", ")">>,
       <<"(", "o", "r", "i", "g", "i", "n", "a", "l", " ", "s", "o", "u", "n", "d", "t", "r", "a", "c", "k", ")">>,
       <<"(", "o", "s", "t", ")">>,
       <<"[", "o", "s", "t", "]">> >>

VERSION_INDICATORS ==
    << <<"r", "e", "m", "a", "s", "t", "e", "r">>,
       <<"r", "e", "m", "a", "s", "t", "e", "r", "e", "d">>,
       <<"r", "e", "m", "i", "x">>,
       <<"r", "e", "m", "i", "x", "e", "d">>,
       <<"d", "e", "l", "u", "x", "e">>,
       <<"e", "x", "p", "a", "n", "d", "e", "d">>,
       <<"e", "d", "i", "t", "i", "o", "n">>,
       <<"v", "e", "r", "s", "i", "o", "n">>,
       <<"a", "n", "n", "i", "v", "e", "r", "s", "a", "r", "y">>,
       <<"s", "p", "e", "c", "i", "a", "l">>,
       <<"b", "o", "n", "u", "s">>,
       <<"e", "x", "t", "e", "n", "d", "e", "d">> >>

\* the loop over STRIP_SUFFIXES: every suffix is tried once, in list order
RECURSIVE StripSuffixes(_, _)
StripSuffixes(s, suffixes) ==
    IF suffixes = << >> THEN s
    ELSE IF EndsWith(s, Head(suffixes))
         THEN StripSuffixes(Strip(SubSeq(s, 1, Len(s) - Len(Head(suffixes)))), Tail(suffixes))
         ELSE StripSuffixes(s, Tail(suffixes))
\* re.sub(open [^close]* close, '', s): leftmost, non-overlapping
RECURSIVE RemoveSpans(_, _, _)
RemoveSpans(s, open, close) ==
    IF s = << >> THEN << >>
    ELSE IF Head(s) = open /\ \E j \in 2..Len(s) : s[j] = close
         THEN LET j == CHOOSE j \in 2..Len(s) :
                         s[j] = close /\ \A h \in 2..(j - 1) : s[h] # close
              IN  RemoveSpans(SubSeq(s, j + 1, Len(s)), open, close)
         ELSE << Head(s) >> \o RemoveSpans(Tail(s), open, close)
\* the loop over IGNORE_PREFIXES: the first prefix that matches is removed
RECURSIVE StripPrefix(_, _)
StripPrefix(s, prefixes) ==
    IF prefixes = << >> THEN s
    ELSE IF StartsWith(s, Head(prefixes))
         THEN SubSeq(s, Len(Head(prefixes)) + 1, Len(s))
         ELSE StripPrefix(s, Tail(prefixes))
\* re.sub(r'[^\w\s]', '', s)
RemovePunct(s) == SelectSeq(s, LAMBDA c : IsWordChar(c) \/ IsSpace(c))
\* re.sub(r'\s+', ' ', s)
RECURSIVE CollapseSpaces(_)
CollapseSpaces(s) ==
    IF s = << >> THEN << >>
    ELSE IF IsSpace(Head(s))
         THEN << " " >> \o CollapseSpaces(LStrip(s))
         ELSE << Head(s) >> \o CollapseSpaces(Tail(s))
\* unicodedata.normalize('NFKD', s).encode('ASCII', 'ignore').decode('ASCII')
AsciiFoldAll(s) == Flatten([i \in 1..Len(s) |-> AsciiFold(s[i])])
\* strict mode: content in parentheses, then content in brackets, is removed
RemoveBracketed(s, strict) ==
    IF strict THEN RemoveSpans(RemoveSpans(s, "(", ")"), "[", "]") ELSE s
\* lower/strip, accents, suffixes, (strict) brackets, prefix, punctuation, whitespace
normalize(name, strict) ==
    IF FalsyText(name) THEN << >>
    ELSE Strip(CollapseSpaces(RemovePunct(
             StripPrefix(RemoveBracketed(StripSuffixes(AsciiFoldAll(Strip(Lower(name))),
                                                       STRIP_SUFFIXES),
                                         strict),
                         IGNORE_PREFIXES))))

(***************************************************************************)
(* difflib.SequenceMatcher(None, a, b).ratio()                             *)
(***************************************************************************)
\* length of the common run of a and b starting at a[i], b[j]
RECURSIVE CommonRun(_, _, _, _)
CommonRun(a, b, i, j) ==
    IF i > Len(a) \/ j > Len(b) \/ a[i] # b[j] THEN 0
    ELSE 1 + CommonRun(a, b, i + 1, j + 1)
MaxOf(S) == CHOOSE m \in S : \A n \in S : n <= m
\* among the runs of length k: earliest in a, then earliest in b
FirstBlock(run, k) ==
    CHOOSE p \in DOMAIN run :
        /\ run[p] = k
        /\ \A q \in DOMAIN run :
              run[q] = k => (p[1] < q[1] \/ (p[1] = q[1] /\ p[2] <= q[2]))
Block(best, k) == [i |-> best[1], j |-> best[2], k |-> k]
LongestBlock(run, k) == Block(FirstBlock(run, k), k)
LongestRun(run) == LongestBlock(run, MaxOf({ run[p] : p \in DOMAIN run }))
\* find_longest_match: the longest block, earliest in a, then earliest in b
LongestMatch(a, b) ==
    LongestRun([p \in (1..Len(a)) \X (1..Len(b)) |-> CommonRun(a, b, p[1], p[2])])
\* get_matching_blocks: total size of the blocks found left and right of the longest one
RECURSIVE MatchingSize(_, _)
RECURSIVE MatchingSizeAround(_, _, _)
MatchingSizeAround(a, b, m) ==
    IF m.k = 0 THEN 0
    ELSE m.k
         + MatchingSize(SubSeq(a, 1, m.i - 1), SubSeq(b, 1, m.j - 1))
         + MatchingSize(SubSeq(a, m.i + m.k, Len(a)), SubSeq(b, m.j + m.k, Len(b)))
MatchingSize(a, b) ==
    IF a = << >> \/ b = << >> THEN 0
    ELSE MatchingSizeAround(a, b, LongestMatch(a, b))
\* ratio() = 2.0 * M / T as the exact fraction [num, den]
Ratio(a, b) == [num |-> 2 * MatchingSize(a, b), den |-> Len(a) + Len(b)]
\* are_similar(name1, name2, threshold, strict); threshold in hundredths
AtLeast(ratio, threshold) == ratio.num * 100 >= threshold * ratio.den
\* the comparison of the two normalized names in are_similar
SimilarNormalized(norm1, norm2, threshold) ==
    IF norm1 = norm2 THEN TRUE
    ELSE IF norm1 = << >> \/ norm2 = << >> THEN FALSE
    ELSE AtLeast(Ratio(norm1, norm2), threshold)
are_similar(name1, name2, threshold, strict) ==
    IF FalsyText(name1) \/ FalsyText(name2) THEN FALSE
    ELSE IF Lower(name1) = Lower(name2) THEN TRUE
    ELSE SimilarNormalized(normalize(name1, strict), normalize(name2, strict), threshold)
\* get_similarity_score(name1, name2, strict) as the exact fraction [num, den]
\* the score of the two normalized names in get_similarity_score
ScoreNormalized(norm1, norm2) ==
    IF norm1 = norm2 THEN [num |-> 1, den |-> 1]
    ELSE IF norm1 = << >> \/ norm2 = << >> THEN [num |-> 0, den |-> 1]
    ELSE Ratio(norm1, norm2)
get_similarity_score(name1, name2, strict) ==
    IF FalsyText(name1) \/ FalsyText(name2) THEN [num |-> 0, den |-> 1]
    ELSE IF Lower(name1) = Lower(name2) THEN [num |-> 1, den |-> 1]
    ELSE ScoreNormalized(normalize(name1, strict), normalize(name2, strict))
\* some version indicator occurs in the text (re.IGNORECASE)
HasIndicator(s) ==
    \E k \in 1..Len(VERSION_INDICATORS) : Contains(Lower(s), VERSION_INDICATORS[k])
LeadingSpaces(s) == Len(s) - Len(LStrip(s))
\* re.sub(r'\s*' open '[^' close ']*(?:indicators)[^' close ']*' close, '', s, IGNORECASE)
RECURSIVE RemoveVersionSpans(_, _, _)
RemoveVersionSpans(s, open, close) ==
    IF s = << >> THEN << >>
    ELSE LET p == LeadingSpaces(s) + 1
             hasClose == p <= Len(s) /\ s[p] = open /\ \E j \in (p + 1)..Len(s) : s[j] = close
             j == CHOOSE j \in (p + 1)..Len(s) :
                     s[j] = close /\ \A h \in (p + 1)..(j - 1) : s[h] # close
         IN  IF hasClose /\ HasIndicator(SubSeq(s, p + 1, j - 1))
             THEN RemoveVersionSpans(SubSeq(s, j + 1, Len(s)), open, close)
             ELSE << Head(s) >> \o RemoveVersionSpans(Tail(s), open, close)
DashChars == { "-", "en_dash", "em_dash" }
\* re.sub(r'\s*[-\u2013\u2014]\s*(?:indicators).*$', '', s, IGNORECASE)
RemoveDashVersion(s) ==
    LET starts == { i \in 1..Len(s) :
                      LET rest == SubSeq(s, i, Len(s))
                          d    == LeadingSpaces(rest) + 1
                      IN  /\ d <= Len(rest)
                          /\ rest[d] \in DashChars
                          /\ \E k \in 1..Len(VERSION_INDICATORS) :
                                StartsWith(Lower(LStrip(SubSeq(rest, d + 1, Len(rest)))),
                                           VERSION_INDICATORS[k]) }
    IN  IF starts = {} THEN s
        ELSE SubSeq(s, 1, (CHOOSE i \in starts : \A h \in starts : i <= h) - 1)
remove_version_info(name) ==
    Strip(RemoveDashVersion(RemoveVersionSpans(RemoveVersionSpans(name, "(", ")"), "[", "]")))
ArtistThreshold == 90
AlbumThreshold == 88
TrackThreshold == 85
artists_match(name1, name2) == are_similar(name1, name2, ArtistThreshold, FALSE)
albums_match(title1, title2) == are_similar(title1, title2, AlbumThreshold, FALSE)
tracks_match(title1, title2) ==
    are_similar(remove_version_info(title1), remove_version_info(title2), TrackThreshold, TRUE)

(***************************************************************************)
(* Exact fractions for the float-valued scores                             *)
(***************************************************************************)
RECURSIVE Gcd(_, _)
Gcd(a, b) == IF b = 0 THEN a ELSE Gcd(b, a % b)
Frac(n, d) == LET g == Gcd(n, d) IN IF g = 0 THEN [num |-> 0, den |-> 1] ELSE [num |-> n \div g, den |-> d \div g]
FAdd(x, y) == Frac(x.num * y.den + y.num * x.den, x.den * y.den)
FMul(x, y) == Frac(x.num * y.num, x.den * y.den)
FLess(x, y) == x.num * y.den < y.num * x.den
FMin(x, y) == IF FLess(y, x) THEN y ELSE x
Zero == Frac(0, 1)
One == Frac(1, 1)

(***************************************************************************)
(* The entity store (db_package/models.py) and the SQLAlchemy session      *)
(*                                                                         *)
(* A table is the sequence of its rows in insertion order; a row's id is   *)
(* its position.  A nullable integer column holds 0 for None (the code     *)
(* only ever tests such a column for truthiness).  A row's "related" field *)
(* is its similarity-edge list in insertion order.                         *)
(***************************************************************************)
Artist(name, image_url, spotify_id, lastfm_id, discogs_id, description) ==
    [name |-> name, image_url |-> image_url, spotify_id |-> spotify_id,
     lastfm_id |-> lastfm_id, discogs_id |-> discogs_id,
     description |-> description, related |-> << >>]
Album(title, artist_id, release_year, image_url, spotify_id, lastfm_id, discogs_id) ==
    [title |-> title, artist_id |-> artist_id, release_year |-> release_year,
     image_url |-> image_url, spotify_id |-> spotify_id, lastfm_id |-> lastfm_id,
     discogs_id |-> discogs_id, related |-> << >>]
Track(title, artist_id, album_id, duration_seconds, spotify_id, lastfm_id) ==
    [title |-> title, artist_id |-> artist_id, album_id |-> album_id,
     duration_seconds |-> duration_seconds, spotify_id |-> spotify_id,
     lastfm_id |-> lastfm_id, discogs_id |-> NULL, related |-> << >>]
Providers == { "spotify", "lastfm", "discogs" }
\* the position of the first row satisfying Test, 0 when there is none (.first())
FirstWhere(rows, Test(_)) ==
    IF \E i \in 1..Len(rows) : Test(rows[i])
    THEN CHOOSE i \in 1..Len(rows) : Test(rows[i]) /\ \A h \in 1..(i - 1) : ~Test(rows[h])
    ELSE 0
Take(s, n) == SubSeq(s, 1, IF n < Len(s) THEN n ELSE Len(s))
InSeq(x, s) == \E i \in 1..Len(s) : s[i] = x

(***************************************************************************)
(* One request's execution context.  A helper takes the context and        *)
(* returns [c, v, exc]: the context after it, its return value, and        *)
(* whether it raised.  The context holds the tables as the request's       *)
(* session sees them, the session's transaction state, the number of       *)
(* queries and commits issued so far, the request's fault plan and user,   *)
(* and the probes (provider calls made, candidates scored, rollbacks).     *)
(***************************************************************************)
Ret(c, v) == [c |-> c, v |-> v, exc |-> FALSE]
Raise(c) == [c |-> c, v |-> 0, exc |-> TRUE]
\* one ORM query: it raises when the read fails or the session's transaction
\* is inactive after an earlier failure that was not rolled back
Query(c) ==
    LET c1 == [c EXCEPT !.reads = @ + 1]
    IN  IF c.sess = "inactive" THEN Raise(c1)
        ELSE IF c1.reads = c.plan.readFail THEN Raise([c1 EXCEPT !.sess = "inactive"])
        ELSE Ret(c1, 0)
\* the constraints the schema declares: Artist.name unique and not null,
\* Album.title and Track.title not null
IntegrityOK(artists, albums, tracks) ==
    /\ \A i \in 1..Len(artists) : artists[i].name # NoneText
    /\ \A i, j \in 1..Len(artists) : i # j => artists[i].name # artists[j].name
    /\ \A i \in 1..Len(albums) : albums[i].title # NoneText
    /\ \A i \in 1..Len(tracks) : tracks[i].title # NoneText
\* db.commit() of the pending state (artists, albums, tracks): a failed commit
\* leaves the tables as they were and the session's transaction inactive
Commit(c, artists, albums, tracks) ==
    LET c1 == [c EXCEPT !.commits = @ + 1]
    IN  IF c.sess = "inactive" THEN Raise(c1)
        ELSE IF c1.commits = c.plan.commitFail \/ ~IntegrityOK(artists, albums, tracks)
             THEN Raise([c1 EXCEPT !.sess = "inactive", !.commitFailed = TRUE])
        ELSE Ret([c1 EXCEPT !.artists = artists, !.albums = albums, !.tracks = tracks], 0)
\* db.rollback()
Rollback(c) == [c EXCEPT !.sess = "active", !.rollbacks = @ + 1]

(***************************************************************************)
(* The music catalogue the providers answer from: a small fixed universe   *)
(* of names, titles and provider records.  A provider record carries       *)
(* "found" (the call returned data) and the fields the resolver reads.     *)
(***************************************************************************)
N_Bjork == <<"B", "j", "o", "r", "k">>
N_BjorkU == <<"B", "j", "o_uml", "r", "k">>
N_Bjorks == <<"B", "j", "o", "r", "k", "s">>
N_Bjorkss == <<"B", "j", "o", "r", "k", "s", "s">>
N_Abba == <<"A", "b", "b", "a">>
N_ABBA == <<"A", "B", "B", "A">>
T_Post == <<"P", "o", "s", "t">>
T_PostDeluxe == <<"P", "o", "s", "t", " ", "(", "D", "e", "l", "u", "x", "e", ")">>
T_Debut == <<"D", "e", "b", "u", "t">>
T_Joga == <<"J", "o", "g", "a">>
T_JogaRemaster == <<"J", "o", "g", "a", " ", "(", "R", "e", "m", "a", "s", "t", "e", "r", "e", "d", " ", "2", "0", "0", "9", ")">>
T_Hunter == <<"H", "u", "n", "t", "e", "r">>
T_HunterRemaster == T_Hunter \o <<" ", "-", " ", "2", "0", "1", "1", " ", "R", "e", "m", "a", "s", "t", "e", "r">>
T_HunterLive == T_Hunter \o <<" ", "-", " ", "L", "i", "v", "e">>
D_Pop == <<"p", "o", "p">>
D_PopRock == <<"p", "o", "p", " ", "r", "o", "c", "k">>
D_Y1995 == <<"1", "9", "9", "5", "-", "0", "6", "-", "1", "3">>
D_Y1997 == <<"1", "9", "9", "7">>
NoData == [found |-> FALSE]
\* sp.search(q="artist:...", type="artist", limit=1): items[0]
SpotifyArtistCatalog(query) ==
    IF query \in { N_Bjork, N_BjorkU }
    THEN [found |-> TRUE, id |-> "sp_bjork", name |-> N_BjorkU, images |-> << "sp_img_bjork" >>]
    ELSE IF query = N_Bjorkss
    THEN [found |-> TRUE, id |-> "sp_bjorks", name |-> N_Bjorks, images |-> << >>]
    ELSE NoData
\* artist.getinfo: data["artist"]
LastfmArtistCatalog(query) ==
    IF query \in { N_Bjork, N_BjorkU }
    THEN [found |-> TRUE, name |-> N_Bjork, mbid |-> "mb_bjork", summary |-> D_Pop,
          image |-> << "", "fm_img_bjork" >>]
    ELSE IF query = N_Abba
    THEN [found |-> TRUE, name |-> N_ABBA, mbid |-> "mb_abba", summary |-> D_PopRock,
          image |-> << >>]
    ELSE NoData
\* database/search?type=artist: results[0]
DiscogsArtistCatalog(query) ==
    IF query \in { N_Bjork, N_BjorkU }
    THEN [found |-> TRUE, id |-> "11", title |-> N_Bjork]
    ELSE IF query = N_Bjorkss
    THEN [found |-> TRUE, id |-> "13", title |-> N_Bjorks]
    ELSE IF query = N_Abba
    THEN [found |-> TRUE, id |-> "12", title |-> N_ABBA]
    ELSE NoData

(***************************************************************************)
(* Provider gateway (user_services.py).  A provider is available when the  *)
(* user holds credentials for it; a call that fails inside the gateway is  *)
(* logged there and returns None.                                          *)
(***************************************************************************)
is_available(c, provider) == provider \in c.plan.avail
\* a gateway call: the probe records it; a provider that is down answers None
ProviderCall(c, provider, data) ==
    Ret([c EXCEPT !.calls = Append(@, provider)],
        IF provider \in c.plan.down THEN NoData ELSE data)
spotify_search_artist(c, query) == ProviderCall(c, "spotify", SpotifyArtistCatalog(query))
lastfm_get_artist_info(c, query) == ProviderCall(c, "lastfm", LastfmArtistCatalog(query))
discogs_search_artist(c, query) == ProviderCall(c, "discogs", DiscogsArtistCatalog(query))

(***************************************************************************)
(* The match decisions and name scores over the universe of names, each    *)
(* computed once by the normalizer above.                                  *)
(***************************************************************************)
\* the titles of a catalogue of tracks resolved earlier: no two of them match
SeedTracks == 22
SeedTitle(i) == << UpperChars[i], LowerChars[i] >>
AllNames ==
    { << >>, NoneText, N_Bjork, N_BjorkU, N_Bjorks, N_Bjorkss, N_Abba, N_ABBA,
      T_Post, T_PostDeluxe, T_Debut, T_Joga, T_JogaRemaster, T_Hunter,
      T_HunterRemaster, T_HunterLive }
    \cup { SeedTitle(i) : i \in 1..SeedTracks }
MatchRow(name1, name2) ==
    [artist |-> artists_match(name1, name2),
     album  |-> albums_match(name1, name2),
     track  |-> IF NoneText \in { name1, name2 } THEN FALSE ELSE tracks_match(name1, name2),
     score  |-> get_similarity_score(name1, name2, FALSE)]
MatchRows == [p \in AllNames \X AllNames |-> MatchRow(p[1], p[2])]
\* comparing a function with itself makes TLC enumerate it, once
Enumerated(f) == IF f = f THEN f ELSE << >>
MatchTable == Enumerated(MatchRows)
ArtistsMatch(name1, name2) == MatchTable[<< name1, name2 >>].artist
AlbumsMatch(title1, title2) == MatchTable[<< title1, title2 >>].album
TracksMatch(title1, title2) == MatchTable[<< title1, title2 >>].track
NameScore(name1, name2) == MatchTable[<< name1, name2 >>].score

(***************************************************************************)
(* Sequencing of helpers: Then runs the rest of the code on a result       *)
(* unless an exception is propagating; Try is a try/except block.          *)
(***************************************************************************)
Then(r, Rest(_)) == IF r.exc THEN r ELSE Rest(r)
Try(r, Except(_)) == IF r.exc THEN Except(r.c) ELSE r

(***************************************************************************)
(* Resolver: artists                                                       *)
(***************************************************************************)
ArtistFuzzyLimit == 500
\* a faulty lookup that runs its two queries and matches no row
LookupFindsNothing(c, artist_name) == Then(Query(c), LAMBDA q1 : Then(Query(q1.c), LAMBDA q2 : q2))
\* a faulty lookup that scans for a fuzzy match before the exact-name query
FuzzyBeforeExact(c, artist_name) ==
    Then(Query(c), LAMBDA q1 :
        Then(Query(q1.c), LAMBDA q2 :
            IF \E i \in 1..Len(q2.c.artists) : ArtistsMatch(q2.c.artists[i].name, artist_name)
            THEN Ret(q2.c, FirstWhere(Take(q2.c.artists, ArtistFuzzyLimit),
                                      LAMBDA r : ArtistsMatch(r.name, artist_name)))
            ELSE Ret(q2.c, FirstWhere(q2.c.artists, LAMBDA r : r.name = artist_name))))
\* _find_existing_artist_fuzzy: exact name first, then the first fuzzy match
\* among the first 500 rows
find_existing_artist_fuzzy(c, artist_name) ==
    Then(Query(c), LAMBDA q1 :
        IF \E i \in 1..Len(q1.c.artists) : q1.c.artists[i].name = artist_name
        THEN Ret(q1.c, FirstWhere(q1.c.artists, LAMBDA r : r.name = artist_name))
        ELSE Then(Query(q1.c), LAMBDA q2 :
                 Ret(q2.c, FirstWhere(Take(q2.c.artists, ArtistFuzzyLimit),
                                      LAMBDA r : ArtistsMatch(r.name, artist_name)))))
\* db.add(row); db.commit(); db.refresh(row): the new row's id, or the exception
AddArtist(c, row) ==
    Then(Commit(c, Append(c.artists, row), c.albums, c.tracks), LAMBDA cm :
        Then(Query(cm.c), LAMBDA rf : Ret(rf.c, Len(rf.c.artists))))
\* an update of row id followed by db.commit()
UpdateArtist(c, id, row) ==
    Then(Commit(c, [c.artists EXCEPT ![id] = row], c.albums, c.tracks), LAMBDA cm : Ret(cm.c, id))
\* the update branch of _create_artist_from_spotify: the Spotify id is
\* assigned, the image only when the row has none
MergeSpotifyArtist(old, spotify_data) ==
    [old EXCEPT !.spotify_id = spotify_data.id,
                !.image_url = IF Falsy(@) /\ spotify_data.images # << >>
                              THEN spotify_data.images[1] ELSE @]
\* _create_artist_from_spotify
create_artist_from_spotify(c, spotify_data) ==
    Then(Query(c), LAMBDA q1 :
        IF \E i \in 1..Len(q1.c.artists) : q1.c.artists[i].spotify_id = spotify_data.id
        THEN Ret(q1.c, FirstWhere(q1.c.artists, LAMBDA r : r.spotify_id = spotify_data.id))
        ELSE Then(find_existing_artist_fuzzy(q1.c, spotify_data.name), LAMBDA fz :
                 IF fz.v # 0
                 THEN UpdateArtist(fz.c, fz.v, MergeSpotifyArtist(fz.c.artists[fz.v], spotify_data))
                 ELSE AddArtist(fz.c, Artist(spotify_data.name,
                                             IF spotify_data.images # << >>
                                             THEN spotify_data.images[1] ELSE NULL,
                                             spotify_data.id, NULL, NULL, NoneText))))
\* lastfm_data['image'][-1]['#text']
LastImage(image) == IF image # << >> THEN image[Len(image)] ELSE NULL
\* the update branch of _create_artist_from_lastfm: empty fields are filled
MergeLastfmArtist(old, lastfm_data) ==
    [old EXCEPT !.lastfm_id = IF Falsy(@) /\ ~Falsy(lastfm_data.mbid) THEN lastfm_data.mbid ELSE @,
                !.description = IF FalsyText(@) /\ ~FalsyText(lastfm_data.summary)
                                THEN lastfm_data.summary ELSE @,
                !.image_url = IF Falsy(@) /\ lastfm_data.image # << >>
                              THEN LastImage(lastfm_data.image) ELSE @]
\* _create_artist_from_lastfm
create_artist_from_lastfm(c, lastfm_data) ==
    Then(find_existing_artist_fuzzy(c, lastfm_data.name), LAMBDA fz :
        IF fz.v # 0
        THEN UpdateArtist(fz.c, fz.v, MergeLastfmArtist(fz.c.artists[fz.v], lastfm_data))
        ELSE AddArtist(fz.c, Artist(lastfm_data.name, LastImage(lastfm_data.image), NULL,
                                    lastfm_data.mbid, NULL, lastfm_data.summary)))
\* the update branch of _create_artist_from_discogs: the Discogs id is assigned
MergeDiscogsArtist(old, discogs_data) == [old EXCEPT !.discogs_id = discogs_data.id]
\* _create_artist_from_discogs
create_artist_from_discogs(c, discogs_data) ==
    Then(Query(c), LAMBDA q1 :
        IF \E i \in 1..Len(q1.c.artists) : q1.c.artists[i].discogs_id = discogs_data.id
        THEN Ret(q1.c, FirstWhere(q1.c.artists, LAMBDA r : r.discogs_id = discogs_data.id))
        ELSE Then(find_existing_artist_fuzzy(q1.c, discogs_data.title), LAMBDA fz :
                 IF fz.v # 0
                 THEN UpdateArtist(fz.c, fz.v, MergeDiscogsArtist(fz.c.artists[fz.v], discogs_data))
                 ELSE AddArtist(fz.c, Artist(discogs_data.title, NULL, NULL, NULL,
                                             discogs_data.id, NoneText))))
\* an earlier step has settled the search: it raised, or it returned an artist
Settled(r) == r.exc \/ r.v # 0
\* the Spotify step of _find_or_create_artist
SearchArtistSpotify(r, artist_name) ==
    IF Settled(r) \/ ~is_available(r.c, "spotify") THEN r
    ELSE Then(spotify_search_artist(r.c, artist_name), LAMBDA sp :
             IF sp.v.found THEN create_artist_from_spotify(sp.c, sp.v) ELSE Ret(sp.c, 0))
\* the Last.fm step of _find_or_create_artist
SearchArtistLastfm(r, artist_name) ==
    IF Settled(r) \/ ~is_available(r.c, "lastfm") THEN r
    ELSE Then(lastfm_get_artist_info(r.c, artist_name), LAMBDA fm :
             IF fm.v.found THEN create_artist_from_lastfm(fm.c, fm.v) ELSE Ret(fm.c, 0))
\* the Discogs step of _find_or_create_artist
SearchArtistDiscogs(r, artist_name) ==
    IF Settled(r) \/ ~is_available(r.c, "discogs") THEN r
    ELSE Then(discogs_search_artist(r.c, artist_name), LAMBDA dg :
             IF dg.v.found THEN create_artist_from_discogs(dg.c, dg.v) ELSE Ret(dg.c, 0))
\* the try block of _find_or_create_artist: the providers in priority order,
\* the first one that returns data decides
SearchArtistProviders(c, artist_name) ==
    SearchArtistDiscogs(SearchArtistLastfm(SearchArtistSpotify(Ret(c, 0), artist_name),
                                           artist_name),
                        artist_name)
\* the except clause of _find_or_create_artist: the error is logged and the
\* result is None; the session is left as the exception left it
ArtistSearchFailed(c) == Ret(c, 0)
\* the call stack of the resolvers: a resolver is entered, and left by
\* return or by exception; nesting is the deepest the stack has been
Called(c) ==
    [c EXCEPT !.depth = @ + 1, !.nesting = IF @ < c.depth + 1 THEN c.depth + 1 ELSE @]
Returned(r) == [r EXCEPT !.c.depth = @ - 1]
\* _find_or_create_artist
find_or_create_artist(c, artist_name) ==
    Returned(Then(find_existing_artist_fuzzy(Called(c), artist_name), LAMBDA ex :
                 IF ex.v # 0 THEN ex
                 ELSE Try(SearchArtistProviders(ex.c, artist_name), ArtistSearchFailed)))

(***************************************************************************)
(* Relationship engine: scoring                                            *)
(***************************************************************************)
\* set(re.findall(r'\w+', text.lower()))
RECURSIVE WordsFrom(_, _, _)
WordsFrom(s, i, cur) ==
    IF i > Len(s) THEN (IF cur = << >> THEN {} ELSE { cur })
    ELSE IF IsWordChar(s[i]) THEN WordsFrom(s, i + 1, Append(cur, ToLower(s[i])))
    ELSE (IF cur = << >> THEN {} ELSE { cur }) \cup WordsFrom(s, i + 1, << >>)
Words(text) == WordsFrom(text, 1, << >>)
\* the Jaccard index of the two word sets
Jaccard(words1, words2) ==
    IF words1 = {} \/ words2 = {} THEN Zero
    ELSE Frac(Cardinality(words1 \cap words2), Cardinality(words1 \cup words2))
\* _text_similarity
text_similarity(text1, text2) ==
    IF FalsyText(text1) \/ FalsyText(text2) THEN Zero
    ELSE Jaccard(Words(text1), Words(text2))
AllTexts == { << >>, NoneText, D_Pop, D_PopRock }
TextRows == [p \in AllTexts \X AllTexts |-> text_similarity(p[1], p[2])]
TextTable == Enumerated(TextRows)
TextSimilarity(text1, text2) == TextTable[<< text1, text2 >>]
\* artist.albums / artist.tracks: the rows that carry the artist's id
AlbumsOf(c, artist_id) == SelectSeq(c.albums, LAMBDA r : r.artist_id = artist_id)
TracksOf(c, artist_id) == SelectSeq(c.tracks, LAMBDA r : r.artist_id = artist_id)
RECURSIVE SumDurations(_)
SumDurations(rows) ==
    IF rows = << >> THEN 0 ELSE Head(rows).duration_seconds + SumDurations(Tail(rows))
Min(a, b) == IF a < b THEN a ELSE b
\* the loops of _compute_album_overlap over the two artists' albums
AlbumOverlap(albums1, albums2) ==
    IF albums1 = << >> \/ albums2 = << >> THEN Zero
    ELSE Frac(Cardinality({ i \in 1..Len(albums1) :
                  \E j \in 1..Len(albums2) : AlbumsMatch(albums1[i].title, albums2[j].title) }),
              Min(Len(albums1), Len(albums2)))
\* _compute_album_overlap
compute_album_overlap(c, artist1, artist2) ==
    AlbumOverlap(AlbumsOf(c, artist1), AlbumsOf(c, artist2))
MaxReasonableDiff == 120
\* sum(durations) / len(tracks)
Average(rows) == Frac(SumDurations(rows), Len(rows))
\* abs(x - y) / max_reasonable_diff
RelativeDiff(x, y) ==
    IF FLess(x, y) THEN Frac(y.num * x.den - x.num * y.den, x.den * y.den * MaxReasonableDiff)
    ELSE Frac(x.num * y.den - y.num * x.den, x.den * y.den * MaxReasonableDiff)
\* 1.0 - diff / max_reasonable_diff when diff <= max_reasonable_diff, else 0.0
Closeness(rel) == IF ~FLess(One, rel) THEN Frac(rel.den - rel.num, rel.den) ELSE Zero
DurationSimilarity(tracks1, tracks2) ==
    IF tracks1 = << >> \/ tracks2 = << >> THEN Zero
    ELSE Closeness(RelativeDiff(Average(tracks1), Average(tracks2)))
\* _compute_duration_similarity
compute_duration_similarity(c, artist1, artist2) ==
    DurationSimilarity(SelectSeq(TracksOf(c, artist1), LAMBDA t : t.duration_seconds # 0),
                       SelectSeq(TracksOf(c, artist2), LAMBDA t : t.duration_seconds # 0))
\* the shared-platform term of _compute_artist_similarity, capped at 0.4
PlatformScore(a1, a2) ==
    FMin(FAdd(FAdd(IF ~Falsy(a1.spotify_id) /\ ~Falsy(a2.spotify_id) THEN Frac(3, 10) ELSE Zero,
                   IF ~Falsy(a1.lastfm_id) /\ ~Falsy(a2.lastfm_id) THEN Frac(2, 10) ELSE Zero),
              IF ~Falsy(a1.discogs_id) /\ ~Falsy(a2.discogs_id) THEN Frac(1, 10) ELSE Zero),
         Frac(4, 10))
\* the name term: 0.2 * name_score when name_score > 0.8
NameTerm(name_score) ==
    IF FLess(Frac(8, 10), name_score) THEN FMul(Frac(2, 10), name_score) ELSE Zero
\* the description term: 0.2 * text similarity when both have a description
DescriptionTerm(a1, a2) ==
    IF ~FalsyText(a1.description) /\ ~FalsyText(a2.description)
    THEN FMul(Frac(2, 10), TextSimilarity(a1.description, a2.description))
    ELSE Zero
\* a faulty artist score that returns the sum of the terms as it stands
UncappedArtistSimilarity(c, artist1, artist2) ==
    FAdd(FAdd(FAdd(FAdd(PlatformScore(c.artists[artist1], c.artists[artist2]),
                        NameTerm(NameScore(c.artists[artist1].name, c.artists[artist2].name))),
                   DescriptionTerm(c.artists[artist1], c.artists[artist2])),
              FMul(Frac(2, 10), compute_album_overlap(c, artist1, artist2))),
         FMul(Frac(1, 10), compute_duration_similarity(c, artist1, artist2)))
\* _compute_artist_similarity
compute_artist_similarity(c, artist1, artist2) ==
    FMin(FAdd(FAdd(FAdd(FAdd(PlatformScore(c.artists[artist1], c.artists[artist2]),
                             NameTerm(NameScore(c.artists[artist1].name, c.artists[artist2].name))),
                        DescriptionTerm(c.artists[artist1], c.artists[artist2])),
                   FMul(Frac(2, 10), compute_album_overlap(c, artist1, artist2))),
              FMul(Frac(1, 10), compute_duration_similarity(c, artist1, artist2))),
         One)

(***************************************************************************)
(* Relationship engine: ranking                                            *)
(***************************************************************************)
MinScore == Frac(1, 10)
\* list.sort(key=score, reverse=True): stable, equal scores keep scan order
RECURSIVE SortDesc(_)
SortDesc(scored) ==
    IF scored = << >> THEN << >>
    ELSE LET n    == Len(scored)
             x    == scored[n]
             rest == SortDesc(SubSeq(scored, 1, n - 1))
             k    == Cardinality({ i \in 1..Len(rest) : ~FLess(rest[i].score, x.score) })
         IN  SubSeq(rest, 1, k) \o << x >> \o SubSeq(rest, k + 1, Len(rest))
Ids(scored) == [i \in 1..Len(scored) |-> scored[i].id]
\* a faulty ranking that keeps the candidates that score 0.1 or less
RankUnfiltered(scores, top_n) == Ids(Take(SortDesc(scores), top_n))
\* the candidates with score > 0.1, best first, cut to top_n
Rank(scores, top_n) ==
    Ids(Take(SortDesc(SelectSeq(scores, LAMBDA s : FLess(MinScore, s.score))), top_n))
CandidateLimit == 1000
\* a faulty candidate query that leaves the id filter out
AllArtistIds(c, target_artist) == Take([i \in 1..Len(c.artists) |-> i], CandidateLimit)
\* query(Artist).filter(Artist.id != target_artist.id).limit(1000).all()
ArtistCandidates(c, target_artist) ==
    Take(SelectSeq([i \in 1..Len(c.artists) |-> i], LAMBDA i : i # target_artist),
         CandidateLimit)
\* the scoring loop of _compute_artist_relationships
RankArtists(c, target_artist, all_artists, top_n) ==
    Ret([c EXCEPT !.scored = @ + Len(all_artists)],
        Rank([i \in 1..Len(all_artists) |->
                 [id |-> all_artists[i],
                  score |-> compute_artist_similarity(c, target_artist, all_artists[i])]],
             top_n))
\* _compute_artist_relationships
compute_artist_relationships(c, target_artist, top_n) ==
    Then(Query(c), LAMBDA q :
        RankArtists(q.c, target_artist, ArtistCandidates(q.c, target_artist), top_n))

(***************************************************************************)
(* User filters                                                            *)
(***************************************************************************)
\* filter_obj.value.lower() in text.lower(), for a text that is not empty
Mentions(text, value) == ~FalsyText(text) /\ Contains(Lower(text), Lower(value))
\* a faulty exclude_artist pass that compares the name as it is written
ArtistsKeptExact(c, filter_obj, ids) ==
    IF filter_obj.filter_type = "exclude_artist"
    THEN SelectSeq(ids, LAMBDA a : c.artists[a].name # filter_obj.value)
    ELSE ids
\* one pass of the loop of _apply_artist_filters
ArtistsKept(c, filter_obj, ids) ==
    IF filter_obj.filter_type = "exclude_genre"
    THEN SelectSeq(ids, LAMBDA a : ~Mentions(c.artists[a].description, filter_obj.value))
    ELSE IF filter_obj.filter_type = "exclude_artist"
    THEN SelectSeq(ids, LAMBDA a : Lower(c.artists[a].name) # Lower(filter_obj.value))
    ELSE ids
RECURSIVE apply_artist_filter_list(_, _, _)
apply_artist_filter_list(c, filter_list, ids) ==
    IF filter_list = << >> THEN ids
    ELSE apply_artist_filter_list(c, Tail(filter_list), ArtistsKept(c, Head(filter_list), ids))
\* _apply_artist_filters
apply_artist_filters(c, ids) ==
    Then(Query(c), LAMBDA q : Ret(q.c, apply_artist_filter_list(q.c, q.c.filters, ids)))

(***************************************************************************)
(* Facade: related artists                                                 *)
(***************************************************************************)
\* the result of a facade call: the entity it resolved to, the related list
\* before and after the user's filters, and a refresh count
Outcome(resolved, related, result, count) ==
    [resolved |-> resolved, related |-> related, result |-> result, count |-> count]
NotFound == Outcome(0, << >>, << >>, 0)
\* a faulty cache append that adds every computed target
AppendAll(cache, found) == cache \o found
\* "if x not in cache: cache.append(x)" for every x of found, in order
RECURSIVE AppendAbsent(_, _)
AppendAbsent(cache, found) ==
    IF found = << >> THEN cache
    ELSE AppendAbsent(IF InSeq(Head(found), cache) THEN cache ELSE Append(cache, Head(found)),
                      Tail(found))
\* a faulty cache test that wants more than top_n cached edges
CacheMoreThan(cached, top_n) == Len(cached) > top_n
\* "len(entity.related) >= top_n": the cached edges answer the request
CacheSufficient(cached, top_n) == Len(cached) >= top_n
\* a faulty cache write that swallows the failure and leaves the session as it is
CommitNoRollback(cm) == cm.c
\* "try: db.commit() except: db.rollback()": the session after the block
CommitOrRollback(cm) == IF cm.exc THEN Rollback(cm.c) ELSE cm.c
\* a faulty cache write that stores only the targets the user's filters keep
CacheKeptEdges(c, artist, related) ==
    Ret(CommitOrRollback(Commit(c, [c.artists EXCEPT ![artist].related =
                                       AppendAbsent(@, apply_artist_filter_list(c, c.filters, related))],
                                c.albums, c.tracks)),
        related)
\* the else branch of get_related_artists after the ranking: the targets not
\* yet cached are appended and the cache is committed, best effort
CacheArtistEdges(c, artist, related) ==
    Ret(CommitOrRollback(Commit(c, [c.artists EXCEPT ![artist].related = AppendAbsent(@, related)],
                                c.albums, c.tracks)),
        related)
\* the cache test of get_related_artists and its two branches
RelatedArtists(c, artist, top_n) ==
    Then(Query(c), LAMBDA ld :
        IF CacheSufficient(ld.c.artists[artist].related, top_n)
        THEN Ret(ld.c, Take(ld.c.artists[artist].related, top_n))
        ELSE Then(compute_artist_relationships(ld.c, artist, top_n), LAMBDA cp :
                 CacheArtistEdges(cp.c, artist, cp.v)))
\* the filters and the final cut of get_related_artists
FilteredArtists(c, artist, related, top_n) ==
    Then(apply_artist_filters(c, related), LAMBDA fl :
        Ret(fl.c, Outcome(artist, related, Take(fl.v, top_n), 0)))
\* get_related_artists
get_related_artists(c, artist_name, top_n) ==
    Then(find_existing_artist_fuzzy(c, artist_name), LAMBDA ex :
        Then(IF ex.v # 0 THEN ex ELSE find_or_create_artist(ex.c, artist_name), LAMBDA fc :
            IF fc.v = 0 THEN Ret(fc.c, NotFound)
            ELSE Then(RelatedArtists(fc.c, fc.v, top_n), LAMBDA rl :
                     FilteredArtists(rl.c, fc.v, rl.v, top_n))))
RefreshTopN == 20
\* a faulty clear that leaves the cached edges in place
KeepRelated(rows, id) == rows
\* artist.related_artists.clear()
ClearRelated(rows, id) == [rows EXCEPT ![id].related = << >>]
\* "for x in new_related: entity.related.append(x)"
AppendRelated(rows, id, new_related) == [rows EXCEPT ![id].related = @ \o new_related]
\* refresh_artist_relationships
refresh_artist_relationships(c, artist_id) ==
    Then(Query(c), LAMBDA q :
        IF artist_id \notin 1..Len(q.c.artists) THEN Ret(q.c, NotFound)
        ELSE Then(Commit(q.c, ClearRelated(q.c.artists, artist_id), q.c.albums, q.c.tracks),
                  LAMBDA cm1 :
             Then(compute_artist_relationships(cm1.c, artist_id, RefreshTopN), LAMBDA cp :
             Then(Commit(cp.c, AppendRelated(cp.c.artists, artist_id, cp.v),
                         cp.c.albums, cp.c.tracks), LAMBDA cm2 :
                 Ret(cm2.c, Outcome(artist_id, cp.v, cp.v, Len(cp.v)))))))

(***************************************************************************)
(* Resolver: albums                                                        *)
(***************************************************************************)
\* sp.search(q="album:... artist:...", type="album", limit=1): items[0]
SpotifyAlbumCatalog(query, artist_name) ==
    IF query \in { T_Post, T_PostDeluxe }
    THEN [found |-> TRUE, id |-> "sp_post", name |-> T_Post, images |-> << "sp_img_post" >>,
          release_date |-> D_Y1995, artists |-> << N_BjorkU >>]
    ELSE IF query = T_Debut /\ FalsyText(artist_name)
    THEN [found |-> TRUE, id |-> "sp_debut", name |-> T_Debut, images |-> << >>,
          release_date |-> << >>, artists |-> << >>]
    ELSE NoData
\* album.getinfo: data["album"]
LastfmAlbumCatalog(artist_name, album_name) ==
    IF artist_name \in { N_Bjork, N_BjorkU } /\ album_name \in { T_Post, T_PostDeluxe }
    THEN [found |-> TRUE, name |-> T_PostDeluxe, mbid |-> "mb_post", image |-> << "", "fm_img_post" >>]
    ELSE IF artist_name \in { N_Bjork, N_BjorkU } /\ album_name = T_Debut
    THEN [found |-> TRUE, name |-> T_Debut, mbid |-> "", image |-> << "" >>]
    ELSE NoData
spotify_search_album(c, query, artist_name) ==
    ProviderCall(c, "spotify", SpotifyAlbumCatalog(query, artist_name))
lastfm_get_album_info(c, artist_name, album_name) ==
    ProviderCall(c, "lastfm", LastfmAlbumCatalog(artist_name, album_name))
\* the body of search_release, database/search?type=release: results[0]
DiscogsReleaseCatalog(artist_name, album_name) ==
    IF album_name \in { T_Post, T_PostDeluxe }
    THEN [found |-> TRUE, id |-> "21", title |-> T_Post, year |-> D_Y1997]
    ELSE NoData
\* DiscogsService.search_release(artist_name, album_name) has two required
\* parameters; the resolver calls it with one, which raises TypeError before
\* the method body runs
discogs_search_release(c, search_query) == Raise(c)
\* the position of the last row among the newest limit rows that satisfies
\* Test, 0 when there is none (order_by(id.desc()).limit(limit), first hit)
LastWhere(rows, limit, Test(_)) ==
    LET from == IF Len(rows) > limit THEN Len(rows) - limit + 1 ELSE 1
    IN  IF \E i \in from..Len(rows) : Test(rows[i])
        THEN CHOOSE i \in from..Len(rows) : Test(rows[i]) /\ \A h \in (i + 1)..Len(rows) : ~Test(rows[h])
        ELSE 0
RecentLimit == 200
\* the global part of _find_existing_album_fuzzy: exact title, then the
\* newest fuzzy match
find_existing_album_global(c, album_title) ==
    Then(Query(c), LAMBDA q1 :
        IF \E i \in 1..Len(q1.c.albums) : q1.c.albums[i].title = album_title
        THEN Ret(q1.c, FirstWhere(q1.c.albums, LAMBDA r : r.title = album_title))
        ELSE Then(Query(q1.c), LAMBDA q2 :
                 Ret(q2.c, LastWhere(q2.c.albums, RecentLimit,
                                     LAMBDA r : AlbumsMatch(r.title, album_title)))))
\* the search among the albums of one artist: exact title, then fuzzy
find_existing_album_of(c, album_title, artist) ==
    Then(Query(c), LAMBDA q1 :
        IF \E i \in 1..Len(q1.c.albums) :
               q1.c.albums[i].title = album_title /\ q1.c.albums[i].artist_id = artist
        THEN Ret(q1.c, FirstWhere(q1.c.albums,
                                  LAMBDA r : r.title = album_title /\ r.artist_id = artist))
        ELSE Then(Query(q1.c), LAMBDA q2 :
                 Ret(q2.c, FirstWhere(q2.c.albums,
                                      LAMBDA r : r.artist_id = artist
                                                 /\ AlbumsMatch(r.title, album_title)))))
\* the artist-scoped part of _find_existing_album_fuzzy: 0 when there is no
\* hint, no such artist, or no album of that artist matches
find_existing_album_scoped(c, album_title, artist_name) ==
    IF FalsyText(artist_name) THEN Ret(c, 0)
    ELSE Then(find_existing_artist_fuzzy(c, artist_name), LAMBDA fa :
             IF fa.v = 0 THEN fa ELSE find_existing_album_of(fa.c, album_title, fa.v))
\* _find_existing_album_fuzzy
find_existing_album_fuzzy(c, album_title, artist_name) ==
    Then(find_existing_album_scoped(c, album_title, artist_name), LAMBDA sc :
        IF sc.v # 0 THEN sc ELSE find_existing_album_global(sc.c, album_title))
\* int(text): the value of a string of decimal digits, 0 (no value) when the
\* conversion raises
RECURSIVE DigitsValue(_)
DigitsValue(s) ==
    IF s = << >> THEN 0
    ELSE 10 * DigitsValue(SubSeq(s, 1, Len(s) - 1))
         + (CHOOSE d \in 0..9 : << "0", "1", "2", "3", "4", "5", "6", "7", "8", "9" >>[d + 1] = s[Len(s)])
ParseInt(s) == IF s # << >> /\ \A i \in 1..Len(s) : s[i] \in DigitChars THEN DigitsValue(s) ELSE 0
\* images[-1]['#text'] of the Last.fm images that have a url
LastNonEmpty(images) == IF images # << >> THEN images[Len(images)] ELSE NULL
\* the merged field values of _create_album_from_aggregated_data
AlbumTitleOf(agg) ==
    IF agg.spotify_data.found THEN agg.spotify_data.name
    ELSE IF agg.lastfm_data.found THEN agg.lastfm_data.name
    ELSE IF agg.discogs_data.found THEN agg.discogs_data.title
    ELSE agg.title
AlbumImageOf(agg) ==
    IF agg.spotify_data.found /\ agg.spotify_data.images # << >> THEN agg.spotify_data.images[1]
    ELSE IF agg.lastfm_data.found /\ agg.lastfm_data.image # << >>
    THEN LastNonEmpty(SelectSeq(agg.lastfm_data.image, LAMBDA u : u # ""))
    ELSE IF agg.discogs_data.found
    THEN (IF ~Falsy(agg.discogs_data.cover_image) THEN agg.discogs_data.cover_image
          ELSE agg.discogs_data.thumb)
    ELSE NULL
\* int(spotify_data['release_date'][:4]) when there is a release date
SpotifyYearOf(agg) ==
    IF agg.spotify_data.found /\ ~FalsyText(agg.spotify_data.release_date)
    THEN ParseInt(Take(agg.spotify_data.release_date, 4)) ELSE 0
AlbumYearOf(agg) ==
    IF SpotifyYearOf(agg) # 0 THEN SpotifyYearOf(agg)
    ELSE IF agg.discogs_data.found /\ ~FalsyText(agg.discogs_data.year)
    THEN ParseInt(agg.discogs_data.year)
    ELSE 0
\* the values _create_album_from_aggregated_data derives from the provider data
AlbumFields(agg) ==
    [title |-> AlbumTitleOf(agg), image_url |-> AlbumImageOf(agg),
     release_year |-> AlbumYearOf(agg),
     spotify_id |-> IF agg.spotify_data.found THEN agg.spotify_data.id ELSE NULL,
     lastfm_id |-> IF agg.lastfm_data.found THEN agg.lastfm_data.mbid ELSE NULL,
     discogs_id |-> IF agg.discogs_data.found THEN agg.discogs_data.id ELSE NULL]
\* db.add(row); db.commit(); db.refresh(row) for an album
AddAlbum(c, row) ==
    Then(Commit(c, c.artists, Append(c.albums, row), c.tracks), LAMBDA cm :
        Then(Query(cm.c), LAMBDA rf : Ret(rf.c, Len(rf.c.albums))))
UpdateAlbum(c, id, row) ==
    Then(Commit(c, c.artists, [c.albums EXCEPT ![id] = row], c.tracks), LAMBDA cm : Ret(cm.c, id))
\* the name of the artist an album or track is attached to: the hint, else
\* the first artist of the Spotify record, else none
OwnerName(agg) ==
    IF ~FalsyText(agg.artist_name) THEN agg.artist_name
    ELSE IF agg.spotify_data.found /\ agg.spotify_data.artists # << >>
    THEN agg.spotify_data.artists[1]
    ELSE NoneText
ResolveOwner(c, agg) ==
    IF OwnerName(agg) = NoneText THEN Ret(c, 0) ELSE find_or_create_artist(c, OwnerName(agg))
\* .filter_by(<provider>_id=value).first(), issued only when value is truthy
\* and nothing was found before
ByProviderId(r, rows, field, value) ==
    IF r.exc \/ r.v # 0 \/ Falsy(value) THEN r
    ELSE Then(Query(r.c), LAMBDA q : Ret(q.c, FirstWhere(rows, LAMBDA row : row[field] = value)))
\* artist.name if artist else None
NameOfArtist(c, artist) == IF artist # 0 THEN c.artists[artist].name ELSE NoneText
\* the lookup of _create_album_from_aggregated_data: by provider id, then fuzzy
ExistingAlbum(c, f, artist) ==
    Then(ByProviderId(ByProviderId(ByProviderId(Ret(c, 0),
             c.albums, "spotify_id", f.spotify_id),
             c.albums, "lastfm_id", f.lastfm_id),
             c.albums, "discogs_id", f.discogs_id), LAMBDA byId :
        IF byId.v # 0 THEN byId
        ELSE find_existing_album_fuzzy(byId.c, f.title, NameOfArtist(byId.c, artist)))
\* the update branch of _create_album_from_aggregated_data: empty fields are filled
MergeAlbum(old, f) ==
    [old EXCEPT !.spotify_id = IF Falsy(@) /\ ~Falsy(f.spotify_id) THEN f.spotify_id ELSE @,
                !.lastfm_id = IF Falsy(@) /\ ~Falsy(f.lastfm_id) THEN f.lastfm_id ELSE @,
                !.discogs_id = IF Falsy(@) /\ ~Falsy(f.discogs_id) THEN f.discogs_id ELSE @,
                !.image_url = IF Falsy(@) /\ ~Falsy(f.image_url) THEN f.image_url ELSE @,
                !.release_year = IF @ = 0 /\ f.release_year # 0 THEN f.release_year ELSE @]
\* the update or the insert of _create_album_from_aggregated_data
SaveAlbum(c, existing, f, artist) ==
    IF existing # 0 THEN UpdateAlbum(c, existing, MergeAlbum(c.albums[existing], f))
    ELSE AddAlbum(c, Album(f.title, artist, f.release_year, f.image_url,
                           f.spotify_id, f.lastfm_id, f.discogs_id))
StoreAlbum(c, f, artist) ==
    Then(ExistingAlbum(c, f, artist), LAMBDA ex : SaveAlbum(ex.c, ex.v, f, artist))
\* the try block of _create_album_from_aggregated_data
create_album_body(c, agg) ==
    Then(ResolveOwner(c, agg), LAMBDA ar : StoreAlbum(ar.c, AlbumFields(agg), ar.v))
\* the except clause: the error is logged, the session rolled back, the result None
CreationFailed(c) == Ret(Rollback(c), 0)
\* _create_album_from_aggregated_data
create_album_from_aggregated_data(c, agg) == Try(create_album_body(c, agg), CreationFailed)
\* one provider query of the aggregation, in its own try: skipped when the
\* provider is not consulted, no data when the call raises
Consult(c, consulted, call) ==
    IF ~consulted THEN Ret(c, NoData)
    ELSE IF call.exc THEN Ret(call.c, NoData)
    ELSE call
\* aggregated_data[field] = the provider's answer
Gathered(r, agg, field) == Ret(r.c, [agg EXCEPT ![field] = r.v])
\* the aggregated_data dictionary before any provider is consulted
Aggregated(title, artist_name) ==
    [spotify_data |-> NoData, lastfm_data |-> NoData, discogs_data |-> NoData,
     artist_name |-> artist_name, title |-> title]
\* f"{artist_name} {album_title}" if artist_name else album_title
DiscogsQuery(agg) ==
    IF ~FalsyText(agg.artist_name) THEN agg.artist_name \o << " " >> \o agg.title ELSE agg.title
\* the three provider steps of _find_or_create_album
SpotifyAlbumStep(r) ==
    Gathered(Consult(r.c, is_available(r.c, "spotify"),
                     spotify_search_album(r.c, r.v.title, r.v.artist_name)),
             r.v, "spotify_data")
\* a faulty Last.fm step that is skipped once Spotify has returned the album
LastfmAlbumAfterMiss(r) ==
    Gathered(Consult(r.c, is_available(r.c, "lastfm") /\ ~FalsyText(r.v.artist_name)
                            /\ ~r.v.spotify_data.found,
                     lastfm_get_album_info(r.c, r.v.artist_name, r.v.title)),
             r.v, "lastfm_data")
LastfmAlbumStep(r) ==
    Gathered(Consult(r.c, is_available(r.c, "lastfm") /\ ~FalsyText(r.v.artist_name),
                     lastfm_get_album_info(r.c, r.v.artist_name, r.v.title)),
             r.v, "lastfm_data")
DiscogsAlbumStep(r) ==
    Gathered(Consult(r.c, is_available(r.c, "discogs"),
                     discogs_search_release(r.c, DiscogsQuery(r.v))),
             r.v, "discogs_data")
\* some provider returned data
AnyData(agg) == agg.spotify_data.found \/ agg.lastfm_data.found \/ agg.discogs_data.found
\* the end of _find_or_create_album: an album is created from what was gathered
AlbumFromGathered(r) ==
    IF AnyData(r.v) THEN create_album_from_aggregated_data(r.c, r.v) ELSE Ret(r.c, 0)
\* _find_or_create_album
find_or_create_album(c, album_title, artist_name) ==
    Returned(Then(find_existing_album_fuzzy(Called(c), album_title, artist_name), LAMBDA ex :
                 IF ex.v # 0 THEN ex
                 ELSE AlbumFromGathered(DiscogsAlbumStep(LastfmAlbumStep(SpotifyAlbumStep(
                          Ret(ex.c, Aggregated(album_title, artist_name))))))))

(***************************************************************************)
(* Relationship engine and facade: albums                                  *)
(***************************************************************************)
Abs(n) == IF n < 0 THEN 0 - n ELSE n
MaxYearDiff == 5
\* the shared-platform terms of _compute_album_similarity
AlbumPlatforms(r1, r2) ==
    FAdd(FAdd(IF ~Falsy(r1.spotify_id) /\ ~Falsy(r2.spotify_id) THEN Frac(3, 10) ELSE Zero,
              IF ~Falsy(r1.lastfm_id) /\ ~Falsy(r2.lastfm_id) THEN Frac(2, 10) ELSE Zero),
         IF ~Falsy(r1.discogs_id) /\ ~Falsy(r2.discogs_id) THEN Frac(1, 10) ELSE Zero)
\* "if x1 and x2 and x1 == x2: score += weight" for two nullable references
SameTerm(x1, x2, weight) == IF x1 # 0 /\ x2 # 0 /\ x1 = x2 THEN weight ELSE Zero
\* 0.1 * (1.0 - year_diff / 5.0) when year_diff <= 5
YearCloseness(year_diff) ==
    IF year_diff <= MaxYearDiff
    THEN FMul(Frac(1, 10), Frac(MaxYearDiff - year_diff, MaxYearDiff)) ELSE Zero
YearTerm(a1, a2) ==
    IF a1.release_year # 0 /\ a2.release_year # 0
    THEN YearCloseness(Abs(a1.release_year - a2.release_year)) ELSE Zero
AlbumSimilarity(a1, a2) ==
    FMin(FAdd(FAdd(AlbumPlatforms(a1, a2), SameTerm(a1.artist_id, a2.artist_id, Frac(4, 10))),
              YearTerm(a1, a2)),
         One)
\* _compute_album_similarity
compute_album_similarity(c, album1, album2) == AlbumSimilarity(c.albums[album1], c.albums[album2])
AlbumCandidateLimit == 500
\* query(Album).filter(Album.id != target_album.id).limit(500).all()
AlbumCandidates(c, target_album) ==
    Take(SelectSeq([i \in 1..Len(c.albums) |-> i], LAMBDA i : i # target_album),
         AlbumCandidateLimit)
\* the scoring loop of _compute_album_relationships
RankAlbums(c, target_album, all_albums, top_n) ==
    Ret([c EXCEPT !.scored = @ + Len(all_albums)],
        Rank([i \in 1..Len(all_albums) |->
                 [id |-> all_albums[i],
                  score |-> compute_album_similarity(c, target_album, all_albums[i])]],
             top_n))
\* _compute_album_relationships
compute_album_relationships(c, target_album, top_n) ==
    Then(Query(c), LAMBDA q :
        RankAlbums(q.c, target_album, AlbumCandidates(q.c, target_album), top_n))
\* one pass of the loop of _apply_album_filters
AlbumsKept(c, filter_obj, ids) ==
    IF filter_obj.filter_type = "exclude_genre"
    THEN SelectSeq(ids, LAMBDA a : ~Mentions(c.albums[a].title, filter_obj.value))
    ELSE IF filter_obj.filter_type = "exclude_album"
    THEN SelectSeq(ids, LAMBDA a : Lower(c.albums[a].title) # Lower(filter_obj.value))
    ELSE ids
RECURSIVE apply_album_filter_list(_, _, _)
apply_album_filter_list(c, filter_list, ids) ==
    IF filter_list = << >> THEN ids
    ELSE apply_album_filter_list(c, Tail(filter_list), AlbumsKept(c, Head(filter_list), ids))
\* _apply_album_filters
apply_album_filters(c, ids) ==
    Then(Query(c), LAMBDA q : Ret(q.c, apply_album_filter_list(q.c, q.c.filters, ids)))
\* the else branch of get_related_albums after the ranking
CacheAlbumEdges(c, album, related) ==
    Ret(CommitOrRollback(Commit(c, c.artists,
                                [c.albums EXCEPT ![album].related = AppendAbsent(@, related)],
                                c.tracks)),
        related)
\* the cache test of get_related_albums and its two branches
RelatedAlbums(c, album, top_n) ==
    Then(Query(c), LAMBDA ld :
        IF CacheSufficient(ld.c.albums[album].related, top_n)
        THEN Ret(ld.c, Take(ld.c.albums[album].related, top_n))
        ELSE Then(compute_album_relationships(ld.c, album, top_n), LAMBDA cp :
                 CacheAlbumEdges(cp.c, album, cp.v)))
\* the filters and the final cut of get_related_albums
FilteredAlbums(c, album, related, top_n) ==
    Then(apply_album_filters(c, related), LAMBDA fl :
        Ret(fl.c, Outcome(album, related, Take(fl.v, top_n), 0)))
\* get_related_albums
get_related_albums(c, album_title, artist_name, top_n) ==
    Then(find_existing_album_fuzzy(c, album_title, artist_name), LAMBDA ex :
        Then(IF ex.v # 0 THEN ex ELSE find_or_create_album(ex.c, album_title, artist_name),
             LAMBDA fc :
            IF fc.v = 0 THEN Ret(fc.c, NotFound)
            ELSE Then(RelatedAlbums(fc.c, fc.v, top_n), LAMBDA rl :
                     FilteredAlbums(rl.c, fc.v, rl.v, top_n))))
\* refresh_album_relationships
refresh_album_relationships(c, album_id) ==
    Then(Query(c), LAMBDA q :
        IF album_id \notin 1..Len(q.c.albums) THEN Ret(q.c, NotFound)
        ELSE Then(Commit(q.c, q.c.artists, ClearRelated(q.c.albums, album_id), q.c.tracks),
                  LAMBDA cm1 :
             Then(compute_album_relationships(cm1.c, album_id, RefreshTopN), LAMBDA cp :
             Then(Commit(cp.c, cp.c.artists, AppendRelated(cp.c.albums, album_id, cp.v),
                         cp.c.tracks), LAMBDA cm2 :
                 Ret(cm2.c, Outcome(album_id, cp.v, cp.v, Len(cp.v)))))))

(***************************************************************************)
(* Resolver: tracks                                                        *)
(***************************************************************************)
\* sp.search(q="track:... artist:...", type="track", limit=1): items[0]
SpotifyTrackCatalog(query, artist_name) ==
    IF query \in { T_Joga, T_JogaRemaster }
    THEN [found |-> TRUE, id |-> "sp_joga", name |-> T_Joga, duration_ms |-> 305999,
          album |-> [found |-> TRUE, name |-> T_Post], artists |-> << N_BjorkU >>]
    ELSE IF query \in { T_Hunter, T_HunterRemaster, T_HunterLive }
    THEN [found |-> TRUE, id |-> "sp_hunter", name |-> T_Hunter, duration_ms |-> 0,
          album |-> NoData, artists |-> << >>]
    ELSE NoData
\* track.getInfo: data["track"]
LastfmTrackCatalog(artist_name, track_name) ==
    IF artist_name \in { N_Bjork, N_BjorkU } /\ track_name \in { T_Joga, T_JogaRemaster }
    THEN [found |-> TRUE, name |-> T_JogaRemaster, mbid |-> "mb_joga"]
    ELSE IF artist_name \in { N_Bjork, N_BjorkU } /\ track_name \in { T_HunterRemaster, T_HunterLive }
    THEN [found |-> TRUE, name |-> T_HunterRemaster, mbid |-> "mb_hunter"]
    ELSE NoData
spotify_search_track(c, query, artist_name) ==
    ProviderCall(c, "spotify", SpotifyTrackCatalog(query, artist_name))
lastfm_get_track_info(c, artist_name, track_name) ==
    ProviderCall(c, "lastfm", LastfmTrackCatalog(artist_name, track_name))
\* the fuzzy loop over the scanned rows: tracks_match raises TypeError on a
\* title of None (re.sub on None) at the first row it compares
ScanTracks(c, scanned, track_title, hit) ==
    IF track_title = NoneText /\ scanned # << >> THEN Raise(c) ELSE Ret(c, hit)
\* the global part of _find_existing_track_fuzzy: exact title, then the
\* newest fuzzy match
find_existing_track_global(c, track_title) ==
    Then(Query(c), LAMBDA q1 :
        IF \E i \in 1..Len(q1.c.tracks) : q1.c.tracks[i].title = track_title
        THEN Ret(q1.c, FirstWhere(q1.c.tracks, LAMBDA r : r.title = track_title))
        ELSE Then(Query(q1.c), LAMBDA q2 :
                 ScanTracks(q2.c, Take(q2.c.tracks, RecentLimit), track_title,
                            LastWhere(q2.c.tracks, RecentLimit,
                                      LAMBDA r : TracksMatch(r.title, track_title)))))
\* the search among the tracks of one artist: exact title, then fuzzy
find_existing_track_of(c, track_title, artist) ==
    Then(Query(c), LAMBDA q1 :
        IF \E i \in 1..Len(q1.c.tracks) :
               q1.c.tracks[i].title = track_title /\ q1.c.tracks[i].artist_id = artist
        THEN Ret(q1.c, FirstWhere(q1.c.tracks,
                                  LAMBDA r : r.title = track_title /\ r.artist_id = artist))
        ELSE Then(Query(q1.c), LAMBDA q2 :
                 ScanTracks(q2.c, TracksOf(q2.c, artist), track_title,
                            FirstWhere(q2.c.tracks,
                                       LAMBDA r : r.artist_id = artist
                                                  /\ TracksMatch(r.title, track_title)))))
\* the artist-scoped part of _find_existing_track_fuzzy
find_existing_track_scoped(c, track_title, artist_name) ==
    IF FalsyText(artist_name) THEN Ret(c, 0)
    ELSE Then(find_existing_artist_fuzzy(c, artist_name), LAMBDA fa :
             IF fa.v = 0 THEN fa ELSE find_existing_track_of(fa.c, track_title, fa.v))
\* _find_existing_track_fuzzy
find_existing_track_fuzzy(c, track_title, artist_name) ==
    Then(find_existing_track_scoped(c, track_title, artist_name), LAMBDA sc :
        IF sc.v # 0 THEN sc ELSE find_existing_track_global(sc.c, track_title))
AddTrack(c, row) ==
    Then(Commit(c, c.artists, c.albums, Append(c.tracks, row)), LAMBDA cm :
        Then(Query(cm.c), LAMBDA rf : Ret(rf.c, Len(rf.c.tracks))))
UpdateTrack(c, id, row) ==
    Then(Commit(c, c.artists, c.albums, [c.tracks EXCEPT ![id] = row]), LAMBDA cm : Ret(cm.c, id))
MsPerSecond == 1000
\* the album title _create_track_from_aggregated_data resolves the album by
TrackAlbumTitle(agg) ==
    IF agg.spotify_data.found /\ agg.spotify_data.album.found THEN agg.spotify_data.album.name
    ELSE agg.album_title
\* "if album_title and artist: album = self._find_or_create_album(album_title, artist.name)"
ResolveAlbum(c, album_title, artist) ==
    IF ~FalsyText(album_title) /\ artist # 0
    THEN find_or_create_album(c, album_title, c.artists[artist].name)
    ELSE Ret(c, 0)
\* the values _create_track_from_aggregated_data derives from the provider data
TrackFields(agg) ==
    [title |-> IF agg.spotify_data.found THEN agg.spotify_data.name
               ELSE IF agg.lastfm_data.found THEN agg.lastfm_data.name
               ELSE agg.title,
     duration_seconds |-> IF agg.spotify_data.found
                          THEN agg.spotify_data.duration_ms \div MsPerSecond ELSE 0,
     spotify_id |-> IF agg.spotify_data.found THEN agg.spotify_data.id ELSE NULL,
     lastfm_id |-> IF agg.lastfm_data.found THEN agg.lastfm_data.mbid ELSE NULL]
\* the lookup of _create_track_from_aggregated_data: by provider id, then fuzzy
ExistingTrack(c, f, artist) ==
    Then(ByProviderId(ByProviderId(Ret(c, 0),
             c.tracks, "spotify_id", f.spotify_id),
             c.tracks, "lastfm_id", f.lastfm_id), LAMBDA byId :
        IF byId.v # 0 THEN byId
        ELSE find_existing_track_fuzzy(byId.c, f.title, NameOfArtist(byId.c, artist)))
\* the update branch of _create_track_from_aggregated_data: empty fields are filled
MergeTrack(old, f, album) ==
    [old EXCEPT !.spotify_id = IF Falsy(@) /\ ~Falsy(f.spotify_id) THEN f.spotify_id ELSE @,
                !.lastfm_id = IF Falsy(@) /\ ~Falsy(f.lastfm_id) THEN f.lastfm_id ELSE @,
                !.duration_seconds = IF @ = 0 /\ f.duration_seconds # 0
                                     THEN f.duration_seconds ELSE @,
                !.album_id = IF @ = 0 /\ album # 0 THEN album ELSE @]
\* the update or the insert of _create_track_from_aggregated_data
SaveTrack(c, existing, f, artist, album) ==
    IF existing # 0 THEN UpdateTrack(c, existing, MergeTrack(c.tracks[existing], f, album))
    ELSE AddTrack(c, Track(f.title, artist, album, f.duration_seconds, f.spotify_id, f.lastfm_id))
StoreTrack(c, f, artist, album) ==
    Then(ExistingTrack(c, f, artist), LAMBDA ex : SaveTrack(ex.c, ex.v, f, artist, album))
\* the try block of _create_track_from_aggregated_data
create_track_body(c, agg) ==
    Then(ResolveOwner(c, agg), LAMBDA ar :
        Then(ResolveAlbum(ar.c, TrackAlbumTitle(agg), ar.v), LAMBDA al :
            StoreTrack(al.c, TrackFields(agg), ar.v, al.v)))
\* _create_track_from_aggregated_data
create_track_from_aggregated_data(c, agg) == Try(create_track_body(c, agg), CreationFailed)
\* the aggregated_data dictionary of _find_or_create_track
AggregatedTrack(title, artist_name, album_title) ==
    [spotify_data |-> NoData, lastfm_data |-> NoData, artist_name |-> artist_name,
     album_title |-> album_title, title |-> title]
\* the two provider steps of _find_or_create_track
SpotifyTrackStep(r) ==
    Gathered(Consult(r.c, is_available(r.c, "spotify"),
                     spotify_search_track(r.c, r.v.title, r.v.artist_name)),
             r.v, "spotify_data")
LastfmTrackStep(r) ==
    Gathered(Consult(r.c, is_available(r.c, "lastfm") /\ ~FalsyText(r.v.artist_name),
                     lastfm_get_track_info(r.c, r.v.artist_name, r.v.title)),
             r.v, "lastfm_data")
\* the end of _find_or_create_track
TrackFromGathered(r) ==
    IF r.v.spotify_data.found \/ r.v.lastfm_data.found
    THEN create_track_from_aggregated_data(r.c, r.v) ELSE Ret(r.c, 0)
\* _find_or_create_track
find_or_create_track(c, track_title, artist_name, album_title) ==
    Returned(Then(find_existing_track_fuzzy(Called(c), track_title, artist_name), LAMBDA ex :
                 IF ex.v # 0 THEN ex
                 ELSE TrackFromGathered(LastfmTrackStep(SpotifyTrackStep(
                          Ret(ex.c, AggregatedTrack(track_title, artist_name, album_title)))))))

(***************************************************************************)
(* Relationship engine and facade: tracks                                  *)
(***************************************************************************)
MaxDurationDiff == 30
\* the shared-platform terms of _compute_track_similarity
TrackPlatforms(t1, t2) ==
    FAdd(IF ~Falsy(t1.spotify_id) /\ ~Falsy(t2.spotify_id) THEN Frac(3, 10) ELSE Zero,
         IF ~Falsy(t1.lastfm_id) /\ ~Falsy(t2.lastfm_id) THEN Frac(2, 10) ELSE Zero)
\* 0.2 * (1.0 - duration_diff / 30) when duration_diff <= 30
DurationCloseness(duration_diff) ==
    IF duration_diff <= MaxDurationDiff
    THEN FMul(Frac(2, 10), Frac(MaxDurationDiff - duration_diff, MaxDurationDiff)) ELSE Zero
DurationTerm(t1, t2) ==
    IF t1.duration_seconds # 0 /\ t2.duration_seconds # 0
    THEN DurationCloseness(Abs(t1.duration_seconds - t2.duration_seconds)) ELSE Zero
TrackSimilarity(t1, t2) ==
    FMin(FAdd(FAdd(FAdd(FAdd(TrackPlatforms(t1, t2),
                             SameTerm(t1.artist_id, t2.artist_id, Frac(3, 10))),
                        SameTerm(t1.album_id, t2.album_id, Frac(2, 10))),
                   DurationTerm(t1, t2)),
              FMul(Frac(1, 10), NameScore(t1.title, t2.title))),
         One)
\* _compute_track_similarity
compute_track_similarity(c, track1, track2) == TrackSimilarity(c.tracks[track1], c.tracks[track2])
TrackCandidateLimit == 500
\* query(Track).filter(Track.id != target_track.id).limit(500).all()
TrackCandidates(c, target_track) ==
    Take(SelectSeq([i \in 1..Len(c.tracks) |-> i], LAMBDA i : i # target_track),
         TrackCandidateLimit)
\* the scoring loop of _compute_track_relationships
RankTracks(c, target_track, all_tracks, top_n) ==
    Ret([c EXCEPT !.scored = @ + Len(all_tracks)],
        Rank([i \in 1..Len(all_tracks) |->
                 [id |-> all_tracks[i],
                  score |-> compute_track_similarity(c, target_track, all_tracks[i])]],
             top_n))
\* _compute_track_relationships
compute_track_relationships(c, target_track, top_n) ==
    Then(Query(c), LAMBDA q :
        RankTracks(q.c, target_track, TrackCandidates(q.c, target_track), top_n))
\* int(filter_obj.value) does not raise ValueError
IsInt(s) == s # << >> /\ \A i \in 1..Len(s) : s[i] \in DigitChars
\* one pass of the loop of _apply_track_filters
TracksKept(c, filter_obj, ids) ==
    IF filter_obj.filter_type = "exclude_track"
    THEN SelectSeq(ids, LAMBDA t : Lower(c.tracks[t].title) # Lower(filter_obj.value))
    ELSE IF filter_obj.filter_type = "min_duration" /\ IsInt(filter_obj.value)
    THEN SelectSeq(ids, LAMBDA t : c.tracks[t].duration_seconds # 0
                                   /\ c.tracks[t].duration_seconds >= ParseInt(filter_obj.value))
    ELSE ids
RECURSIVE apply_track_filter_list(_, _, _)
apply_track_filter_list(c, filter_list, ids) ==
    IF filter_list = << >> THEN ids
    ELSE apply_track_filter_list(c, Tail(filter_list), TracksKept(c, Head(filter_list), ids))
\* _apply_track_filters
apply_track_filters(c, ids) ==
    Then(Query(c), LAMBDA q : Ret(q.c, apply_track_filter_list(q.c, q.c.filters, ids)))
\* the else branch of get_related_tracks after the ranking
CacheTrackEdges(c, track, related) ==
    Ret(CommitOrRollback(Commit(c, c.artists, c.albums,
                                [c.tracks EXCEPT ![track].related = AppendAbsent(@, related)])),
        related)
\* the cache test of get_related_tracks and its two branches
RelatedTracks(c, track, top_n) ==
    Then(Query(c), LAMBDA ld :
        IF CacheSufficient(ld.c.tracks[track].related, top_n)
        THEN Ret(ld.c, Take(ld.c.tracks[track].related, top_n))
        ELSE Then(compute_track_relationships(ld.c, track, top_n), LAMBDA cp :
                 CacheTrackEdges(cp.c, track, cp.v)))
\* the filters and the final cut of get_related_tracks
FilteredTracks(c, track, related, top_n) ==
    Then(apply_track_filters(c, related), LAMBDA fl :
        Ret(fl.c, Outcome(track, related, Take(fl.v, top_n), 0)))
\* get_related_tracks
get_related_tracks(c, track_title, artist_name, top_n) ==
    Then(find_existing_track_fuzzy(c, track_title, artist_name), LAMBDA ex :
        Then(IF ex.v # 0 THEN ex
             ELSE find_or_create_track(ex.c, track_title, artist_name, NoneText), LAMBDA fc :
            IF fc.v = 0 THEN Ret(fc.c, NotFound)
            ELSE Then(RelatedTracks(fc.c, fc.v, top_n), LAMBDA rl :
                     FilteredTracks(rl.c, fc.v, rl.v, top_n))))
\* refresh_track_relationships
refresh_track_relationships(c, track_id) ==
    Then(Query(c), LAMBDA q :
        IF track_id \notin 1..Len(q.c.tracks) THEN Ret(q.c, NotFound)
        ELSE Then(Commit(q.c, q.c.artists, q.c.albums, ClearRelated(q.c.tracks, track_id)),
                  LAMBDA cm1 :
             Then(compute_track_relationships(cm1.c, track_id, RefreshTopN), LAMBDA cp :
             Then(Commit(cp.c, cp.c.artists, cp.c.albums,
                         AppendRelated(cp.c.tracks, track_id, cp.v)), LAMBDA cm2 :
                 Ret(cm2.c, Outcome(track_id, cp.v, cp.v, Len(cp.v)))))))

(***************************************************************************)
(* Facade: combined nodes                                                  *)
(***************************************************************************)
DefaultTopN == 10
\* nodes = {"artists": [], "albums": [], "tracks": []}
EmptyNodes == [artists |-> << >>, albums |-> << >>, tracks |-> << >>]
\* nodes[branch] = the facade call's result; an exception leaves nodes as it is
Assigned(r, nodes, branch) ==
    IF r.exc THEN [c |-> r.c, v |-> nodes, exc |-> TRUE]
    ELSE Ret(r.c, [nodes EXCEPT ![branch] = r.v.result])
\* a branch of get_combined_nodes starts: the probe records it
Entered(c, branch) == [c EXCEPT !.branches = @ \cup { branch }]
\* the three branches; all three sit in one try block, so a branch is reached
\* only when no earlier branch raised
ArtistsBranch(r, artist_name) ==
    IF r.exc \/ FalsyText(artist_name) THEN r
    ELSE Assigned(get_related_artists(Entered(r.c, "artists"), artist_name, DefaultTopN),
                  r.v, "artists")
AlbumsBranch(r, album_title, artist_name) ==
    IF r.exc \/ FalsyText(album_title) THEN r
    ELSE Assigned(get_related_albums(Entered(r.c, "albums"), album_title, artist_name, DefaultTopN),
                  r.v, "albums")
TracksBranch(r, track_title, artist_name) ==
    IF r.exc \/ FalsyText(track_title) THEN r
    ELSE Assigned(get_related_tracks(Entered(r.c, "tracks"), track_title, artist_name, DefaultTopN),
                  r.v, "tracks")
\* "except Exception: logger.error(...)" and "return nodes"
ReturnNodes(r) == Ret(r.c, r.v)
\* get_combined_nodes
get_combined_nodes(c, artist_name, album_title, track_title) ==
    ReturnNodes(TracksBranch(AlbumsBranch(ArtistsBranch(Ret(c, EmptyNodes), artist_name),
                                          album_title, artist_name),
                             track_title, artist_name))

(***************************************************************************)
(* The state machine.  The state is the committed content of the entity    *)
(* store, a record of what the latest facade call did, and the requests    *)
(* that are between their lookup and their commit.  Every request runs in  *)
(* a session of its own (database.get_db) over the committed store.        *)
(***************************************************************************)
VARIABLES artists, albums, tracks, last, ops, inflight
vars == << artists, albums, tracks, last, ops, inflight >>

\* the number of facade calls in one behaviour
MaxOps == 3

\* what a request meets: the providers the user has credentials for, the
\* providers that fail inside the gateway, and the storage fault injected
\* (the index of the failing query / commit of the session, 0 for none)
NoFault == [readFail |-> 0, commitFail |-> 0, avail |-> Providers, down |-> {}]
ProviderPlans ==
    { NoFault,
      [NoFault EXCEPT !.down = { "spotify" }],
      [NoFault EXCEPT !.avail = { "discogs" }] }
FaultPlans ==
    { [NoFault EXCEPT !.commitFail = 1],
      [NoFault EXCEPT !.commitFail = 2],
      [NoFault EXCEPT !.readFail = 3] }
Plans == ProviderPlans \cup FaultPlans
ArtistNames == { N_Bjork, N_Bjorkss, N_Abba }
ArtistHints == { NoneText, N_Bjork }
AlbumTitles == { T_Post, T_PostDeluxe, T_Debut }
TrackTitles == { T_Joga, T_JogaRemaster, T_Hunter }
TopNs == { 1, 2 }
RefreshIds == { 1, 2 }
F_abba == <<"a", "b", "b", "a">>
FilterLists == { << >>, << [filter_type |-> "exclude_artist", value |-> F_abba] >> }
\* a request's plan and the user's filters: the filters vary where nothing fails
Requests == (Plans \X { << >> }) \cup ({ NoFault } \X FilterLists)
Sessions == { 1, 2 }

\* the session of a new request over a committed store
SessionOn(store, plan, filter_list) ==
    [artists |-> store.artists, albums |-> store.albums, tracks |-> store.tracks,
     filters |-> filter_list, sess |-> "active", reads |-> 0, commits |-> 0,
     commitFailed |-> FALSE, rollbacks |-> 0, calls |-> << >>, scored |-> 0,
     branches |-> {}, depth |-> 0, nesting |-> 0, plan |-> plan]
Committed == [artists |-> artists, albums |-> albums, tracks |-> tracks]
Session(plan, filter_list) == SessionOn(Committed, plan, filter_list)
\* what a session has committed when its request ends
StoreOf(c) == [artists |-> c.artists, albums |-> c.albums, tracks |-> c.tracks]
\* the number of rows of a store
Rows(store) == Len(store.artists) + Len(store.albums) + Len(store.tracks)
\* the request ends: the committed store is what the session committed; the
\* record of the call keeps its outcome and the session's probes
\* the edges the entity the request resolved had cached when the request began
CachedBefore(op, r) ==
    IF r.exc THEN << >>
    ELSE IF op = "get_related_artists" /\ r.v.resolved \in 1..Len(artists)
    THEN artists[r.v.resolved].related
    ELSE IF op = "get_related_albums" /\ r.v.resolved \in 1..Len(albums)
    THEN albums[r.v.resolved].related
    ELSE IF op = "get_related_tracks" /\ r.v.resolved \in 1..Len(tracks)
    THEN tracks[r.v.resolved].related
    ELSE << >>
Finish(op, r) ==
    /\ ops' = ops + 1
    /\ artists' = r.c.artists
    /\ albums' = r.c.albums
    /\ tracks' = r.c.tracks
    /\ last' = [op |-> op, raised |-> r.exc, out |-> IF r.exc THEN NotFound ELSE r.v,
                sess |-> r.c.sess, commitFailed |-> r.c.commitFailed,
                rollbacks |-> r.c.rollbacks, scored |-> r.c.scored, calls |-> r.c.calls,
                branches |-> r.c.branches, created |-> Rows(StoreOf(r.c)) - Rows(Committed),
                cached |-> CachedBefore(op, r)]
    /\ UNCHANGED inflight

NoCall ==
    [op |-> "none", raised |-> FALSE, out |-> NotFound, sess |-> "active",
     commitFailed |-> FALSE, rollbacks |-> 0, scored |-> 0, calls |-> << >>, branches |-> {},
     created |-> 0, cached |-> << >>]
Idle ==
    [pc |-> "idle", op |-> "none", name |-> NoneText, hint |-> NoneText, top_n |-> 0,
     plan |-> NoFault, snap |-> << >>,
     result |-> 0,
     raised |-> FALSE, sess |-> "active", rollbacks |-> 0, reads |-> 0, conflict |-> FALSE]
Init ==
    /\ artists = << >>
    /\ albums = << >>
    /\ tracks = << >>
    /\ ops = 0
    /\ last = NoCall
    /\ inflight = [s \in Sessions |-> Idle]

GetRelatedArtists ==
    \E n \in ArtistNames, t \in TopNs, q \in Requests :
        /\ ops < MaxOps
        /\ Finish("get_related_artists", get_related_artists(Session(q[1], q[2]), n, t))
GetRelatedAlbums ==
    \E n \in AlbumTitles, h \in ArtistHints, t \in TopNs, p \in Plans :
        /\ ops < MaxOps
        /\ Finish("get_related_albums", get_related_albums(Session(p, << >>), n, h, t))
GetRelatedTracks ==
    \E n \in TrackTitles, h \in ArtistHints, t \in TopNs, p \in Plans :
        /\ ops < MaxOps
        /\ Finish("get_related_tracks", get_related_tracks(Session(p, << >>), n, h, t))
RefreshArtist ==
    \E id \in RefreshIds, p \in { NoFault } \cup FaultPlans :
        /\ ops < MaxOps
        /\ Finish("refresh_artist_relationships",
                  refresh_artist_relationships(Session(p, << >>), id))
RefreshAlbum ==
    \E id \in RefreshIds, p \in { NoFault } \cup FaultPlans :
        /\ ops < MaxOps
        /\ Finish("refresh_album_relationships",
                  refresh_album_relationships(Session(p, << >>), id))
RefreshTrack ==
    \E id \in RefreshIds, p \in { NoFault } \cup FaultPlans :
        /\ ops < MaxOps
        /\ Finish("refresh_track_relationships",
                  refresh_track_relationships(Session(p, << >>), id))
GetCombinedNodes ==
    \E a \in ArtistHints, b \in { NoneText, T_Post }, t \in { NoneText, T_Joga }, p \in Plans :
        /\ ops < MaxOps
        /\ Finish("get_combined_nodes", get_combined_nodes(Session(p, << >>), a, b, t))

Next ==
    \/ GetRelatedArtists
    \/ GetRelatedAlbums
    \/ GetRelatedTracks
    \/ RefreshArtist
    \/ RefreshAlbum
    \/ RefreshTrack
    \/ GetCombinedNodes

Spec == Init /\ [][Next]_vars

(***************************************************************************)
(* The same facade over a store that earlier traffic has filled: two       *)
(* artists, one album and a catalogue of tracks larger than the refresh    *)
(* size.                                                                   *)
(***************************************************************************)
SeedTrack(i) ==
    Track(SeedTitle(i), 1, IF i % 2 = 1 THEN 1 ELSE 0, 180 + i, "sp_t" \o ToString(i), NULL)
SeededArtists ==
    << Artist(N_BjorkU, "sp_img_bjork", "sp_bjork", NULL, NULL, NoneText),
       Artist(N_ABBA, NULL, NULL, "", NULL, D_PopRock) >>
SeededAlbums ==
    << Album(T_Post, 1, 1995, "sp_img_post", "sp_post", NULL, NULL),
       Album(T_Debut, 1, 1993, NULL, NULL, "mb_debut", NULL) >>
SeededTracks == [i \in 1..SeedTracks |-> SeedTrack(i)]
SeededInit ==
    /\ artists = SeededArtists
    /\ albums = SeededAlbums
    /\ tracks = SeededTracks
    /\ ops = 0
    /\ last = NoCall
    /\ inflight = [s \in Sessions |-> Idle]
SeededNext ==
    \/ GetRelatedTracks
    \/ RefreshArtist
    \/ RefreshAlbum
    \/ RefreshTrack
SeededSpec == SeededInit /\ [][SeededNext]_vars

(***************************************************************************)
(* Two requests resolving artists concurrently.  A request does its        *)
(* lookups and provider calls over the store as committed at that moment;  *)
(* when they end in an insert, its commit runs as a later step, after      *)
(* whatever the other request has committed in between.                    *)
(***************************************************************************)
\* the lookups of a request, up to the point where it would commit
Lookup(s) == find_or_create_artist(SessionOn([Committed EXCEPT !.artists = inflight[s].snap],
                                             inflight[s].plan, << >>),
                                   inflight[s].name)
\* the same request when the store rejects its commit
Rejected(s) ==
    find_or_create_artist(SessionOn([Committed EXCEPT !.artists = inflight[s].snap],
                                    [inflight[s].plan EXCEPT !.commitFail = 1], << >>),
                          inflight[s].name)
\* the row the request inserts
Inserted(r) == r.c.artists[Len(r.c.artists)]
Ended(s, r, conflict) ==
    [inflight[s] EXCEPT !.pc = "done", !.result = r.v, !.raised = r.exc, !.sess = r.c.sess,
                        !.rollbacks = r.c.rollbacks, !.reads = r.c.reads,
                        !.conflict = conflict]
\* a request starts: its lookups run; a hit, a merge or a miss without
\* provider data ends it, an insert leaves it before its commit
ResolveArtist(s) ==
    \E n \in ArtistNames, p \in ProviderPlans :
        /\ inflight[s].pc = "idle"
        /\ LET r == find_or_create_artist(SessionOn(Committed, p, << >>), n)
           IN  IF Len(r.c.artists) > Len(artists)
               THEN /\ inflight' = [inflight EXCEPT ![s] =
                                       [@ EXCEPT !.pc = "committing", !.name = n, !.plan = p,
                                                 !.snap = artists]]
                    /\ UNCHANGED artists
               ELSE /\ inflight' = [inflight EXCEPT ![s] =
                                       [@ EXCEPT !.pc = "done", !.name = n, !.plan = p,
                                                 !.snap = artists, !.result = r.v,
                                                 !.raised = r.exc, !.sess = r.c.sess,
                                                 !.rollbacks = r.c.rollbacks,
                                                 !.reads = r.c.reads]]
                    /\ artists' = r.c.artists
        /\ UNCHANGED << albums, tracks, last, ops >>
\* the commit of the insert: the store checks the row against what is
\* committed now
CommitArtist(s) ==
    /\ inflight[s].pc = "committing"
    /\ IF IntegrityOK(Append(artists, Inserted(Lookup(s))), albums, tracks)
       THEN /\ artists' = Append(artists, Inserted(Lookup(s)))
            /\ inflight' = [inflight EXCEPT ![s] =
                               [Ended(s, Lookup(s), FALSE) EXCEPT !.result = Len(artists')]]
       ELSE /\ UNCHANGED artists
            /\ inflight' = [inflight EXCEPT ![s] = Ended(s, Rejected(s), TRUE)]
    /\ UNCHANGED << albums, tracks, last, ops >>
RaceNext ==
    \/ \E s \in Sessions : ResolveArtist(s)
    \/ \E s \in Sessions : CommitArtist(s)
RaceSpec == Init /\ [][RaceNext]_vars

(***************************************************************************)
(* The three similarity functions over pairs of rows with every            *)
(* combination of present and absent provider ids, descriptions, release   *)
(* years and durations                                                     *)
(***************************************************************************)
\* a provider id column: None, the empty string, or an id
IdValues == { NULL, "", "id" }
ScoredArtists ==
    { Artist(n, NULL, s, l, d, t) :
        n \in { N_Bjork, N_Bjorks }, s \in { NULL, "id" }, l \in IdValues, d \in { NULL, "id" },
        t \in { NoneText, D_Pop, D_PopRock } }
\* the albums of the two artists: none, one each, two against one
ScoredArtistAlbums ==
    { << >>,
      << Album(T_Post, 1, 0, NULL, NULL, NULL, NULL), Album(T_PostDeluxe, 2, 0, NULL, NULL, NULL, NULL) >>,
      << Album(T_Post, 1, 0, NULL, NULL, NULL, NULL), Album(T_PostDeluxe, 1, 0, NULL, NULL, NULL, NULL),
         Album(T_Post, 2, 0, NULL, NULL, NULL, NULL) >> }
\* the tracks of the two artists: none, close average durations, far ones
ScoredArtistTracks ==
    { << >>,
      << Track(T_Joga, 1, 0, 200, NULL, NULL), Track(T_Hunter, 2, 0, 230, NULL, NULL) >>,
      << Track(T_Joga, 1, 0, 200, NULL, NULL), Track(T_Hunter, 2, 0, 0, NULL, NULL),
         Track(T_Hunter, 2, 0, 400, NULL, NULL) >> }
ScoredYears == { 0, 1993, 1995, 2005 }
ScoredAlbums ==
    { Album(T_Post, a, y, NULL, s, l, d) :
        a \in { 0, 1, 2 }, y \in ScoredYears, s \in { NULL, "id" }, l \in IdValues, d \in { NULL, "id" } }
ScoredDurations == { 0, 200, 215, 300 }
ScoredTracks ==
    { Track(n, a, b, s, sp, l) :
        n \in { T_Joga, T_JogaRemaster }, a \in { 0, 1, 2 }, b \in { 0, 1 }, s \in ScoredDurations,
        sp \in { NULL, "id" }, l \in IdValues }
Pairs(rows) == { << r1, r2 >> : r1 \in rows, r2 \in rows }
ScoreInit ==
    /\ ops = 0
    /\ last = NoCall
    /\ inflight = [s \in Sessions |-> Idle]
    /\ \/ /\ artists \in Pairs(ScoredArtists)
          /\ albums \in ScoredArtistAlbums
          /\ tracks \in ScoredArtistTracks
       \/ /\ artists = << >>
          /\ albums \in Pairs(ScoredAlbums)
          /\ tracks = << >>
       \/ /\ artists = << >>
          /\ albums = << >>
          /\ tracks \in Pairs(ScoredTracks)
\* the score is computed over the committed rows and kept as the call's outcome
Scored(op, score) ==
    /\ ops' = ops + 1
    /\ last' = [NoCall EXCEPT !.op = op, !.out = score]
    /\ UNCHANGED << artists, albums, tracks, inflight >>
ScoreArtists ==
    /\ ops = 0
    /\ Len(artists) = 2
    /\ Scored("_compute_artist_similarity",
              compute_artist_similarity(Session(NoFault, << >>), 1, 2))
ScoreAlbums ==
    /\ ops = 0
    /\ Len(albums) = 2
    /\ Scored("_compute_album_similarity",
              compute_album_similarity(Session(NoFault, << >>), 1, 2))
ScoreTracks ==
    /\ ops = 0
    /\ Len(tracks) = 2
    /\ Scored("_compute_track_similarity",
              compute_track_similarity(Session(NoFault, << >>), 1, 2))
ScoreNext ==
    \/ ScoreArtists
    \/ ScoreAlbums
    \/ ScoreTracks
ScoreSpec == ScoreInit /\ [][ScoreNext]_vars

(***************************************************************************)
(* The normalizer and the track matcher as pure functions over bounded     *)
(* sets of names: an input is drawn, normalize is applied to it and then   *)
(* to its own result; a title and the same title with a version span are   *)
(* handed to tracks_match.                                                 *)
(***************************************************************************)
\* the applications of normalize to one name
MaxNormalize == 2
Articles == { << >>, <<"T", "h", "e", " ">>, <<"A", " ">>, <<"A", "n", " ">> }
OrdinaryWords == { <<"T", "e", "a", "m">>, <<"W", "h", "o">> }
NameTails ==
    { << >>, <<" ", "(", "D", "e", "l", "u", "x", "e", ")">>, <<" ", "(", "L", "i", "v", "e", ")">>,
      <<" ", "-", " ", "R", "e", "m", "a", "s", "t", "e", "r", "e", "d">>,
      <<" ", "(", "L", "i", "v", "e", ")", " ", "(", "R", "e", "m", "a", "s", "t", "e", "r", "e", "d", ")">> }
\* article, article, word, edition suffix or parenthesized span
NormalizedNames == { a1 \o a2 \o w \o t : a1 \in Articles, a2 \in Articles, w \in OrdinaryWords, t \in NameTails }
IndicatorWords ==
    { <<"R", "e", "m", "a", "s", "t", "e", "r">>,
      <<"D", "e", "l", "u", "x", "e">>,
      <<"E", "d", "i", "t", "i", "o", "n">>,
      <<"A", "n", "n", "i", "v", "e", "r", "s", "a", "r", "y">>,
      <<"B", "o", "n", "u", "s">>,
      <<"E", "x", "t", "e", "n", "d", "e", "d">>,
      <<"R", "e", "m", "i", "x">>,
      <<"S", "p", "e", "c", "i", "a", "l">>,
      <<"V", "e", "r", "s", "i", "o", "n">> }
SpanBefore == { << >>, <<"2", "0", "1", "1", " ">> }
SpanAfter == { << >>, <<" ", "2", "0", "0", "9">> }
\* " (x)", " [x]" and " - x" around an indicator word, alone or among other words
VersionSpans ==
    { open \o b \o w \o a \o close :
        open \in { <<" ", "(">> }, close \in { <<")">> }, b \in SpanBefore, w \in IndicatorWords, a \in SpanAfter }
    \cup { open \o b \o w \o a \o close :
        open \in { <<" ", "[">> }, close \in { <<"]">> }, b \in SpanBefore, w \in IndicatorWords, a \in SpanAfter }
    \cup { <<" ", "-", " ">> \o b \o w \o a : b \in SpanBefore, w \in IndicatorWords, a \in SpanAfter }
MatchedTitles == { T_Joga, T_Hunter }

TextInputs ==
    { [op |-> "name", name |-> n, strict |-> s, value |-> n, prev |-> n] :
        n \in NormalizedNames, s \in BOOLEAN }
    \cup { [op |-> "titles", title1 |-> t, title2 |-> t \o v, value |-> FALSE] :
        t \in MatchedTitles, v \in VersionSpans }
TextInit ==
    /\ artists = << >>
    /\ albums = << >>
    /\ tracks = << >>
    /\ ops = 0
    /\ inflight = [s \in Sessions |-> Idle]
    /\ \E in \in TextInputs : last = [NoCall EXCEPT !.op = in.op, !.out = in]
\* the function's value is kept as the call's outcome
Applied(op, out) ==
    /\ ops' = ops + 1
    /\ last' = [last EXCEPT !.op = op, !.out = out]
    /\ UNCHANGED << artists, albums, tracks, inflight >>
\* normalize is applied to the name, then to what it returned
NormalizeName ==
    /\ last.op \in { "name", "normalize" }
    /\ ops < MaxNormalize
    /\ Applied("normalize", [last.out EXCEPT !.prev = last.out.value,
                                             !.value = normalize(last.out.value, last.out.strict)])
MatchTitles ==
    /\ last.op = "titles"
    /\ Applied("tracks_match",
               [last.out EXCEPT !.value = tracks_match(last.out.title1, last.out.title2)])
TextNext ==
    \/ NormalizeName
    \/ MatchTitles
TextSpec == TextInit /\ [][TextNext]_vars

(***************************************************************************)
(* Two requests resolving albums at the same time.  Each request has its   *)
(* own session: its lookups, its provider calls and its db.add run against *)
(* the rows committed when it started, and its INSERT is committed later,  *)
(* when the other request may have committed the same album.               *)
(***************************************************************************)
AlbumRaceInit ==
    /\ artists = SeededArtists
    /\ albums = << >>
    /\ tracks = << >>
    /\ ops = 0
    /\ last = NoCall
    /\ inflight = [s \in Sessions |-> Idle]
\* the request of session s, run again on the rows it saw
AlbumLookup(s) ==
    find_or_create_album(SessionOn([Committed EXCEPT !.albums = inflight[s].snap],
                                   inflight[s].plan, << >>),
                         inflight[s].name, inflight[s].hint)
\* a request starts: a hit, a merge or a miss without provider data ends it,
\* an insert leaves it before the commit of _create_album_from_aggregated_data
StartAlbum(s) ==
    \E n \in AlbumTitles, h \in ArtistHints, p \in ProviderPlans :
        /\ inflight[s].pc = "idle"
        /\ LET r == find_or_create_album(SessionOn(Committed, p, << >>), n, h)
           IN  /\ inflight' = [inflight EXCEPT ![s] =
                      [@ EXCEPT !.pc = IF Len(r.c.albums) > Len(albums) THEN "committing" ELSE "done",
                                !.name = n, !.hint = h, !.plan = p, !.snap = albums,
                                !.result = r.v, !.raised = r.exc, !.sess = r.c.sess,
                                !.rollbacks = r.c.rollbacks, !.reads = r.c.reads]]
               /\ artists' = r.c.artists
               /\ albums' = IF Len(r.c.albums) > Len(albums) THEN albums ELSE r.c.albums
        /\ UNCHANGED << tracks, last, ops >>
\* the commit of the insert: the albums table declares no uniqueness, so the
\* store takes the row whatever has been committed since
CommitAlbum(s) ==
    /\ inflight[s].pc = "committing"
    /\ IntegrityOK(artists, Append(albums, AlbumLookup(s).c.albums[Len(inflight[s].snap) + 1]), tracks)
    /\ albums' = Append(albums, AlbumLookup(s).c.albums[Len(inflight[s].snap) + 1])
    /\ inflight' = [inflight EXCEPT ![s] = [@ EXCEPT !.pc = "done", !.result = Len(albums')]]
    /\ UNCHANGED << artists, tracks, last, ops >>
AlbumRaceNext ==
    \/ \E s \in Sessions : StartAlbum(s)
    \/ \E s \in Sessions : CommitAlbum(s)
AlbumRaceSpec == AlbumRaceInit /\ [][AlbumRaceNext]_vars

(***************************************************************************)
(* The merge of the provider records, on every shape of record             *)
(***************************************************************************)
\* the names a provider record can carry: its own, or none
SpotifyNames == { T_Post, NoneText }
LastfmNames == { T_PostDeluxe, NoneText }
DiscogsTitles == { T_Debut, NoneText }
QueryTitle == T_Hunter
SpotifyImages == { << >>, << "sp_img_large", "sp_img_small" >> }
LastfmImages == { << >>, << "" >>, << "", "fm_img_large" >>, << "fm_img_small", "fm_img_large", "" >> }
DiscogsCovers == { "", "dc_cover" }
DiscogsThumbs == { "", "dc_thumb" }
SpotifyAlbumRecords ==
    { NoData } \cup { [found |-> TRUE, id |-> "sp_post", name |-> n, images |-> i,
                       release_date |-> D_Y1995, artists |-> << N_BjorkU >>] :
                      n \in SpotifyNames, i \in SpotifyImages }
LastfmAlbumRecords ==
    { NoData } \cup { [found |-> TRUE, name |-> n, mbid |-> "mb_post", image |-> i] :
                      n \in LastfmNames, i \in LastfmImages }
DiscogsReleaseRecords ==
    { NoData } \cup { [found |-> TRUE, id |-> "21", title |-> n, year |-> D_Y1997,
                       cover_image |-> cv, thumb |-> th] :
                      n \in DiscogsTitles, cv \in DiscogsCovers, th \in DiscogsThumbs }
SpotifyTrackRecords ==
    { NoData } \cup { [found |-> TRUE, id |-> "sp_joga", name |-> n, duration_ms |-> 305999,
                       album |-> NoData, artists |-> << N_BjorkU >>] : n \in SpotifyNames }
LastfmTrackRecords ==
    { NoData } \cup { [found |-> TRUE, name |-> n, mbid |-> "mb_joga"] : n \in LastfmNames }
\* the aggregated_data dictionaries after the provider steps
GatheredAlbums ==
    { [Aggregated(QueryTitle, N_Bjork) EXCEPT !.spotify_data = sp, !.lastfm_data = fm,
                                               !.discogs_data = dc] :
        sp \in SpotifyAlbumRecords, fm \in LastfmAlbumRecords, dc \in DiscogsReleaseRecords }
GatheredTracks ==
    { [AggregatedTrack(QueryTitle, N_Bjork, NoneText) EXCEPT !.spotify_data = sp, !.lastfm_data = fm] :
        sp \in SpotifyTrackRecords, fm \in LastfmTrackRecords }
MergeInit ==
    /\ artists = << >>
    /\ albums = << >>
    /\ tracks = << >>
    /\ ops = 0
    /\ inflight = [s \in Sessions |-> Idle]
    /\ \/ \E agg \in GatheredAlbums : last = [NoCall EXCEPT !.op = "album_data", !.out = agg]
       \/ \E agg \in GatheredTracks : last = [NoCall EXCEPT !.op = "track_data", !.out = agg]
\* the field values of the album row are derived from the gathered records
DeriveAlbumFields ==
    /\ last.op = "album_data"
    /\ Applied("merge_album", [agg |-> last.out, fields |-> AlbumFields(last.out)])
DeriveTrackFields ==
    /\ last.op = "track_data"
    /\ Applied("merge_track", [agg |-> last.out, fields |-> TrackFields(last.out)])
MergeNext ==
    \/ DeriveAlbumFields
    \/ DeriveTrackFields
MergeSpec == MergeInit /\ [][MergeNext]_vars

(***************************************************************************)
(* The fresh computations over stores of one target row and three          *)
(* candidates whose scores lie above, at and below the threshold           *)
(***************************************************************************)
RankTopNs == { 1, 2, 3 }
RankedTargetArtist == Artist(N_Bjork, NULL, "id", "id", NULL, D_Pop)
RankedArtists ==
    { Artist(N_Bjorks, NULL, "id", NULL, NULL, NoneText),
      Artist(N_Bjorkss, NULL, "id", NULL, NULL, D_PopRock),
      Artist(N_Abba, NULL, NULL, NULL, NULL, NoneText),
      Artist(N_BjorkU, NULL, NULL, "id", NULL, D_Pop),
      Artist(N_ABBA, NULL, "id", "id", NULL, NoneText) }
RankedTargetAlbum == Album(T_Post, 1, 1995, NULL, "id", NULL, NULL)
RankedAlbums ==
    { Album(T_Debut, a, y, NULL, s, NULL, NULL) :
        a \in { 1, 2 }, y \in { 0, 1995, 1997 }, s \in { NULL, "id" } }
RankedTargetTrack == Track(T_Joga, 1, 0, 200, "id", NULL)
RankedTracks ==
    { Track(T_Hunter, a, 0, s, sp, NULL) :
        a \in { 1, 2 }, s \in { 0, 200, 215 }, sp \in { NULL, "id" } }
\* the target row followed by three candidates
RankedStores(target, rows) ==
    { << target, r1, r2, r3 >> : r1 \in rows, r2 \in rows, r3 \in rows }
RankInit ==
    /\ ops = 0
    /\ last = NoCall
    /\ inflight = [s \in Sessions |-> Idle]
    \* artist names are unique
    /\ \/ /\ artists \in { s \in RankedStores(RankedTargetArtist, RankedArtists) :
                             \A i, j \in 1..Len(s) : s[i].name = s[j].name => i = j }
          /\ albums = << >>
          /\ tracks = << >>
       \/ /\ artists = SeededArtists
          /\ albums \in RankedStores(RankedTargetAlbum, RankedAlbums)
          /\ tracks = << >>
       \/ /\ artists = SeededArtists
          /\ albums = << >>
          /\ tracks \in RankedStores(RankedTargetTrack, RankedTracks)
\* the ranking is computed over the committed rows and kept as the call's outcome
Ranked(op, top_n, r) ==
    /\ ops' = ops + 1
    /\ last' = [NoCall EXCEPT !.op = op, !.scored = r.c.scored,
                              !.out = [target |-> 1, top_n |-> top_n, result |-> r.v]]
    /\ UNCHANGED << artists, albums, tracks, inflight >>
ComputeArtistRelationships ==
    \E top_n \in RankTopNs :
        /\ ops = 0
        /\ Len(albums) = 0 /\ Len(tracks) = 0
        /\ Ranked("_compute_artist_relationships", top_n,
                  compute_artist_relationships(Session(NoFault, << >>), 1, top_n))
ComputeAlbumRelationships ==
    \E top_n \in RankTopNs :
        /\ ops = 0
        /\ Len(albums) > 0
        /\ Ranked("_compute_album_relationships", top_n,
                  compute_album_relationships(Session(NoFault, << >>), 1, top_n))
ComputeTrackRelationships ==
    \E top_n \in RankTopNs :
        /\ ops = 0
        /\ Len(tracks) > 0
        /\ Ranked("_compute_track_relationships", top_n,
                  compute_track_relationships(Session(NoFault, << >>), 1, top_n))
RankNext ==
    \/ ComputeArtistRelationships
    \/ ComputeAlbumRelationships
    \/ ComputeTrackRelationships
RankSpec == RankInit /\ [][RankNext]_vars

(***************************************************************************)
(* Requests made one after the other for one track under the titles its    *)
(* providers know it by                                                    *)
(***************************************************************************)
HunterTitles == { T_Hunter, T_HunterRemaster, T_HunterLive }
RelatedToArtist ==
    \E p \in ProviderPlans :
        /\ ops < MaxOps
        /\ Finish("get_related_artists", get_related_artists(Session(p, << >>), N_Bjork, DefaultTopN))
RelatedToAlbum ==
    \E h \in ArtistHints, p \in ProviderPlans :
        /\ ops < MaxOps
        /\ Finish("get_related_albums", get_related_albums(Session(p, << >>), T_Post, h, DefaultTopN))
RelatedToTrack ==
    \E n \in HunterTitles, h \in ArtistHints, p \in ProviderPlans :
        /\ ops < MaxOps
        /\ Finish("get_related_tracks", get_related_tracks(Session(p, << >>), n, h, DefaultTopN))
SequentialNext ==
    \/ RelatedToArtist
    \/ RelatedToAlbum
    \/ RelatedToTrack
SequentialSpec == Init /\ [][SequentialNext]_vars

(***************************************************************************)
(* Two get_related_* requests at the same time over a store that earlier   *)
(* traffic has filled.  Each request has its own session: it resolves the  *)
(* entity, reads the cached edges and ranks the candidates over the rows   *)
(* committed when it started, and the INSERT of the edges it appended is   *)
(* committed later, when the other request may have committed its own.     *)
(***************************************************************************)
CacheRequests ==
    ({ "get_related_artists" } \X { N_Bjork } \X { NoneText } \X TopNs)
    \cup ({ "get_related_albums" } \X { T_Post, T_Debut } \X { NoneText } \X TopNs)
    \cup ({ "get_related_tracks" } \X { SeedTitle(1), SeedTitle(2) } \X { NoneText } \X TopNs)
\* the facade operation of a request
Related(op, c, name, hint, top_n) ==
    IF op = "get_related_artists" THEN get_related_artists(c, name, top_n)
    ELSE IF op = "get_related_albums" THEN get_related_albums(c, name, hint, top_n)
    ELSE get_related_tracks(c, name, hint, top_n)
\* the entity table of the operation in a store
TableOf(op, store) ==
    IF op = "get_related_artists" THEN store.artists
    ELSE IF op = "get_related_albums" THEN store.albums
    ELSE store.tracks
\* the cached edges of a row of the table, none when there is no such row
EdgesOf(op, store, id) ==
    IF id \in 1..Len(TableOf(op, store)) THEN TableOf(op, store)[id].related ELSE << >>
\* the request of session s, run on the rows it saw
Seen(s) ==
    Related(inflight[s].op, SessionOn(inflight[s].snap, NoFault, << >>),
            inflight[s].name, inflight[s].hint, inflight[s].top_n)
\* the edges a run appended to the cached edges it had loaded
Appended(op, r, store) ==
    IF r.exc THEN << >>
    ELSE SelectSeq(EdgesOf(op, StoreOf(r.c), r.v.resolved),
                   LAMBDA x : ~InSeq(x, EdgesOf(op, store, r.v.resolved)))
\* the plan under which the last commit of the run r0 fails: r0 scored the
\* candidates, so its last commit is the one that persists the computed edges
FailingCacheWrite(r0) == [NoFault EXCEPT !.commitFail = r0.c.commits]
\* the request of session s when the store rejects the cache write of its run r
Refused(s, r) ==
    Related(inflight[s].op, SessionOn(inflight[s].snap, FailingCacheWrite(r), << >>),
            inflight[s].name, inflight[s].hint, inflight[s].top_n)
\* a faulty association table without a primary key
NoPrimaryKey(cached, added) == TRUE
\* the primary key of an association table is the pair (source, target): an
\* INSERT of a pair the table already holds for the source is rejected
PrimaryKeyOK(cached, added) == \A i \in 1..Len(added) : ~InSeq(added[i], cached)
\* the store after the edges were inserted for row id of the table
WithEdges(op, id, added) ==
    [artists |-> IF op = "get_related_artists"
                 THEN [artists EXCEPT ![id].related = @ \o added] ELSE artists,
     albums |-> IF op = "get_related_albums"
                THEN [albums EXCEPT ![id].related = @ \o added] ELSE albums,
     tracks |-> IF op = "get_related_tracks"
                THEN [tracks EXCEPT ![id].related = @ \o added] ELSE tracks]
RelatedEnded(s, r, conflict) ==
    [inflight[s] EXCEPT !.pc = "done", !.result = IF r.exc THEN << >> ELSE r.v.result,
                        !.raised = r.exc, !.sess = r.c.sess, !.rollbacks = r.c.rollbacks,
                        !.reads = r.c.reads, !.conflict = conflict]
\* the session keeps what its run r computed; it has a commit to issue when
\* the run appended edges
RelatedStarted(s, q, r, added) ==
    /\ inflight' = [inflight EXCEPT ![s] =
           [@ EXCEPT !.pc = IF added # << >> THEN "committing" ELSE "done",
                     !.op = q[1], !.name = q[2], !.hint = q[3], !.top_n = q[4],
                     !.snap = Committed,
                     !.result = IF r.exc THEN << >> ELSE r.v.result,
                     !.raised = r.exc, !.sess = r.c.sess,
                     !.rollbacks = r.c.rollbacks, !.reads = r.c.reads]]
    /\ UNCHANGED << artists, albums, tracks, last, ops >>
\* the INSERT of the edges added for row id: accepted, or rejected by the
\* primary key, rolled back and the request carried on to its filters
EdgesInserted(s, op, r, id, added) ==
    IF PrimaryKeyOK(EdgesOf(op, Committed, id), added)
    THEN /\ artists' = WithEdges(op, id, added).artists
         /\ albums' = WithEdges(op, id, added).albums
         /\ tracks' = WithEdges(op, id, added).tracks
         /\ inflight' = [inflight EXCEPT ![s] = RelatedEnded(s, r, FALSE)]
    ELSE /\ UNCHANGED << artists, albums, tracks >>
         /\ inflight' = [inflight EXCEPT ![s] = RelatedEnded(s, Refused(s, r), TRUE)]
RelatedCommitted(s, op, r) ==
    /\ EdgesInserted(s, op, r, r.v.resolved, Appended(op, r, inflight[s].snap))
    /\ UNCHANGED << last, ops >>
RelatedRun(s, q, r) == RelatedStarted(s, q, r, Appended(q[1], r, Committed))
\* a request starts: the entity is resolved, the cached edges are read and,
\* when they are fewer than top_n, the candidates are ranked and the missing
\* edges appended; a request that appended none ends here
StartRelated(s) ==
    \E q \in CacheRequests :
        /\ inflight[s].pc = "idle"
        /\ RelatedRun(s, q, Related(q[1], SessionOn(Committed, NoFault, << >>), q[2], q[3], q[4]))
\* the commit of the appended edges: the store checks them against the edges
\* committed now; on a conflict the request rolls back and goes on to its
\* filters with the list it computed
CommitRelated(s) ==
    /\ inflight[s].pc = "committing"
    /\ RelatedCommitted(s, inflight[s].op, Seen(s))
CacheRaceNext ==
    \/ \E s \in Sessions : StartRelated(s)
    \/ \E s \in Sessions : CommitRelated(s)
CacheRaceSpec == SeededInit /\ [][CacheRaceNext]_vars

(***************************************************************************)
(* Properties                                                              *)
(***************************************************************************)
GetRelatedOps == { "get_related_artists", "get_related_albums", "get_related_tracks" }
RefreshOps ==
    { "refresh_artist_relationships", "refresh_album_relationships",
      "refresh_track_relationships" }
\* the entity table an operation of the facade works on
RowsFor(op) ==
    IF op \in { "get_related_artists", "refresh_artist_relationships" } THEN artists
    ELSE IF op \in { "get_related_albums", "refresh_album_relationships" } THEN albums
    ELSE tracks
\* a second session of the same caller, after the first one has ended
Again(r, p) == SessionOn(StoreOf(r.c), p, << >>)
\* the second run returns what the first returned and adds no row
SameAgain(r1, r2, id1, id2) ==
    /\ r2.exc = r1.exc
    /\ id2 = id1
    /\ Rows(StoreOf(r2.c)) = Rows(StoreOf(r1.c))
ArtistTwice(p, n) ==
    LET r1 == find_or_create_artist(Session(p, << >>), n)
        r2 == find_or_create_artist(Again(r1, p), n)
    IN  SameAgain(r1, r2, r1.v, r2.v)
AlbumTwice(p, n, h) ==
    LET r1 == find_or_create_album(Session(p, << >>), n, h)
        r2 == find_or_create_album(Again(r1, p), n, h)
    IN  SameAgain(r1, r2, r1.v, r2.v)
TrackTwice(p, n, h) ==
    LET r1 == find_or_create_track(Session(p, << >>), n, h, NoneText)
        r2 == find_or_create_track(Again(r1, p), n, h, NoneText)
    IN  SameAgain(r1, r2, r1.v, r2.v)
RelatedArtistsTwice(p, n, t) ==
    LET r1 == get_related_artists(Session(p, << >>), n, t)
        r2 == get_related_artists(Again(r1, p), n, t)
    IN  SameAgain(r1, r2, r1.v.resolved, r2.v.resolved)
RelatedAlbumsTwice(p, n, h, t) ==
    LET r1 == get_related_albums(Session(p, << >>), n, h, t)
        r2 == get_related_albums(Again(r1, p), n, h, t)
    IN  SameAgain(r1, r2, r1.v.resolved, r2.v.resolved)
RelatedTracksTwice(p, n, h, t) ==
    LET r1 == get_related_tracks(Session(p, << >>), n, h, t)
        r2 == get_related_tracks(Again(r1, p), n, h, t)
    IN  SameAgain(r1, r2, r1.v.resolved, r2.v.resolved)
\* C1: from every reachable store, for every name, hint and provider plan, a
\* resolution (_find_or_create_* or get_related_*) run twice in sequence
\* over the same provider data resolves to the same entity id both times,
\* and the second run adds no artist, album or track row.
C1_ResolutionConverges ==
    ops < MaxOps =>
        \A p \in ProviderPlans :
            /\ \A n \in ArtistNames : ArtistTwice(p, n) /\ RelatedArtistsTwice(p, n, 2)
            /\ \A n \in AlbumTitles, h \in ArtistHints :
                   AlbumTwice(p, n, h) /\ RelatedAlbumsTwice(p, n, h, 2)
            /\ \A n \in TrackTitles, h \in ArtistHints :
                   TrackTwice(p, n, h) /\ RelatedTracksTwice(p, n, h, 2)
\* a call resolved an entity after consulting a provider again and created
\* no row: the entity an earlier call created was found
C1_Witness ==
    /\ last.op \in GetRelatedOps
    /\ ~last.raised
    /\ last.out.resolved # 0
    /\ last.calls # << >>
    /\ last.created = 0

\* C2: when the store rejects the insert of a request because a concurrent
\* request has committed the same artist name first, the rejected request
\* rolls back, looks the name up again and returns the other writer's row:
\* it neither raises nor reports NotFound.
C2_RejectedWriterReResolves ==
    \A s \in Sessions :
        (inflight[s].pc = "done" /\ inflight[s].conflict) =>
            /\ ~inflight[s].raised
            /\ inflight[s].rollbacks > 0
            /\ inflight[s].sess = "active"
            /\ inflight[s].result \in 1..Len(artists)

\* a field that held a value keeps it
KeptAtom(old, new) == Falsy(old) \/ new = old
KeptText(old, new) == FalsyText(old) \/ new = old
KeptNumber(old, new) == old = 0 \/ new = old
ArtistKept(old, new) ==
    /\ KeptAtom(old.spotify_id, new.spotify_id)
    /\ KeptAtom(old.lastfm_id, new.lastfm_id)
    /\ KeptAtom(old.discogs_id, new.discogs_id)
    /\ KeptAtom(old.image_url, new.image_url)
    /\ KeptText(old.description, new.description)
AlbumKept(old, new) ==
    /\ KeptAtom(old.spotify_id, new.spotify_id)
    /\ KeptAtom(old.lastfm_id, new.lastfm_id)
    /\ KeptAtom(old.discogs_id, new.discogs_id)
    /\ KeptAtom(old.image_url, new.image_url)
    /\ KeptNumber(old.release_year, new.release_year)
    /\ KeptNumber(old.artist_id, new.artist_id)
TrackKept(old, new) ==
    /\ KeptAtom(old.spotify_id, new.spotify_id)
    /\ KeptAtom(old.lastfm_id, new.lastfm_id)
    /\ KeptNumber(old.duration_seconds, new.duration_seconds)
    /\ KeptNumber(old.album_id, new.album_id)
    /\ KeptNumber(old.artist_id, new.artist_id)
\* C3: no step of the facade changes a non-empty field (provider ids, image
\* URL, description, release year, duration, artist and album reference) of
\* an artist, album or track row that existed before the step; a merge only
\* fills empty fields.
C3_MergeKeepsFilledFields ==
    [][/\ \A i \in 1..Len(artists) : ArtistKept(artists[i], artists'[i])
       /\ \A i \in 1..Len(albums) : AlbumKept(albums[i], albums'[i])
       /\ \A i \in 1..Len(tracks) : TrackKept(tracks[i], tracks'[i])]_vars

\* no row of a table is among its own cached edges
NoSelfEdge(rows) == \A i \in 1..Len(rows) : ~InSeq(i, rows[i].related)
\* C4: in every reachable state no cached similarity edge of an artist, album
\* or track leads to the row that holds it, and the result of the latest
\* get_related_* call does not contain the entity the call resolved.
C4_NoSelfRelation ==
    /\ NoSelfEdge(artists)
    /\ NoSelfEdge(albums)
    /\ NoSelfEdge(tracks)
    /\ last.op \in GetRelatedOps =>
           /\ ~InSeq(last.out.resolved, last.out.related)
           /\ ~InSeq(last.out.resolved, last.out.result)
\* get_related_artists answered from the cache (nothing scored) with a
\* result that is not empty: edges were computed and cached by an earlier
\* call and returned by this one
C4_Witness ==
    /\ last.op = "get_related_artists"
    /\ last.scored = 0
    /\ last.out.result # << >>
    /\ artists[last.out.resolved].related # << >>

\* the caches of a table before and after a call
SameCaches(before, after) == \A i \in 1..Len(before) : after[i].related = before[i].related
\* a call that resolved a row holding at least top_n cached edges scored
\* nothing, left every cache of the table as it was and returned the first
\* top_n cached targets
ShortCircuits(r, before, after, top_n) ==
    (/\ ~r.exc
     /\ r.v.resolved \in 1..Len(before)
     /\ Len(before[r.v.resolved].related) >= top_n) =>
        /\ r.c.scored = 0
        /\ SameCaches(before, after)
        /\ r.v.related = Take(before[r.v.resolved].related, top_n)
ArtistsShortCircuit(q, n, t) ==
    LET r == get_related_artists(Session(q[1], q[2]), n, t)
    IN  ShortCircuits(r, artists, r.c.artists, t)
AlbumsShortCircuit(p, n, h, t) ==
    LET r == get_related_albums(Session(p, << >>), n, h, t)
    IN  ShortCircuits(r, albums, r.c.albums, t)
TracksShortCircuit(p, n, h, t) ==
    LET r == get_related_tracks(Session(p, << >>), n, h, t)
    IN  ShortCircuits(r, tracks, r.c.tracks, t)
\* C5: from every reachable store, a get_related_* call whose resolved entity
\* already holds at least top_n cached edges scores no candidate, writes
\* nothing to the cache, and its result before filters is the first top_n
\* cached targets in insertion order.
C5_CacheHitShortCircuits ==
    ops < MaxOps =>
        /\ \A n \in ArtistNames, t \in TopNs, q \in Requests : ArtistsShortCircuit(q, n, t)
        /\ \A n \in AlbumTitles, h \in ArtistHints, t \in TopNs, p \in Plans :
               AlbumsShortCircuit(p, n, h, t)
        /\ \A n \in TrackTitles, h \in ArtistHints, t \in TopNs, p \in Plans :
               TracksShortCircuit(p, n, h, t)
\* get_related_albums resolved an album that existed, scored nothing and
\* returned cached targets
C5_Witness ==
    /\ last.op = "get_related_albums"
    /\ ~last.raised
    /\ last.created = 0
    /\ last.scored = 0
    /\ last.out.related # << >>
    /\ last.out.related = Take(albums[last.out.resolved].related, Len(last.out.related))

\* C6: after a refresh_*_relationships call has returned for an existing
\* entity, the entity's cached edges are exactly the targets computed in that
\* pass, there are at most 20 of them, and the returned count is their number.
C6_RefreshRepopulates ==
    (last.op \in RefreshOps /\ ~last.raised /\ last.out.resolved # 0) =>
        /\ RowsFor(last.op)[last.out.resolved].related = last.out.related
        /\ Len(RowsFor(last.op)[last.out.resolved].related) <= RefreshTopN
        /\ last.out.count = Len(RowsFor(last.op)[last.out.resolved].related)
\* a track refresh over more than 20 candidates that scored: exactly 20 edges
\* were cached and counted
C6_Witness ==
    /\ last.op = "refresh_track_relationships"
    /\ ~last.raised
    /\ last.scored > RefreshTopN
    /\ Len(tracks[last.out.resolved].related) = RefreshTopN
    /\ last.out.count = RefreshTopN

\* C7: a refresh_*_relationships call in which a commit failed does not
\* raise.
C7_RefreshContainsCommitFailure ==
    (last.op \in RefreshOps /\ last.commitFailed) => ~last.raised

\* a resolution that ended without an entity has consulted every provider
\* the user has
AllConsulted(r, p) == (~r.exc /\ r.v = 0) => \A s \in p.avail : InSeq(s, r.c.calls)
\* C8: from every reachable store, for every name and provider plan, a
\* resolution of an artist, album or track gives up only after every
\* available provider has been consulted: a provider that fails or has no
\* data does not end the resolution.
C8_EveryProviderConsulted ==
    ops < MaxOps =>
        \A p \in ProviderPlans :
            /\ \A n \in ArtistNames : AllConsulted(find_or_create_artist(Session(p, << >>), n), p)
            /\ \A n \in AlbumTitles, h \in ArtistHints :
                   AllConsulted(find_or_create_album(Session(p, << >>), n, h), p)
            /\ \A n \in TrackTitles, h \in ArtistHints :
                   AllConsulted(find_or_create_track(Session(p, << >>), n, h, NoneText), p)

\* a resolution in which a commit failed has rolled back, returns None and
\* does not raise
FailureContained(r) ==
    r.c.commitFailed => (~r.exc /\ r.v = 0 /\ r.c.rollbacks > 0 /\ r.c.sess = "active")
\* C9: from every reachable store, for every name and storage fault, a
\* resolution of an artist, album or track in which a commit fails catches
\* the error, rolls the session back and reports None.
C9_PersistenceFailureRolledBack ==
    ops < MaxOps =>
        \A p \in FaultPlans :
            /\ \A n \in ArtistNames : FailureContained(find_or_create_artist(Session(p, << >>), n))
            /\ \A n \in AlbumTitles, h \in ArtistHints :
                   FailureContained(find_or_create_album(Session(p, << >>), n, h))
            /\ \A n \in TrackTitles, h \in ArtistHints :
                   FailureContained(find_or_create_track(Session(p, << >>), n, h, NoneText))

\* the branches a call of get_combined_nodes asks for
Requested(artist_name, album_title, track_title) ==
    (IF FalsyText(artist_name) THEN {} ELSE { "artists" })
    \cup (IF FalsyText(album_title) THEN {} ELSE { "albums" })
    \cup (IF FalsyText(track_title) THEN {} ELSE { "tracks" })
\* C10: from every reachable store, for every request and fault, every
\* branch get_combined_nodes is asked for runs, whatever happens in the
\* other branches.
C10_BranchesIndependent ==
    ops < MaxOps =>
        \A a \in ArtistHints, b \in { NoneText, T_Post }, t \in { NoneText, T_Joga }, p \in Plans :
            get_combined_nodes(Session(p, << >>), a, b, t).c.branches = Requested(a, b, t)

\* the values of the exclude_artist filters of a filter list
ExcludedArtists(filter_list) ==
    { Lower(filter_list[i].value) : i \in { j \in 1..Len(filter_list) :
                                              filter_list[j].filter_type = "exclude_artist" } }
\* no artist of the result carries an excluded name
ExclusionHonoured(r, filter_list) ==
    ~r.exc => \A i \in 1..Len(r.v.result) :
                  Lower(r.c.artists[r.v.result[i]].name) \notin ExcludedArtists(filter_list)
\* C11: from every reachable store, for every name, top_n, fault plan and
\* filter list of the user, the result of get_related_artists holds no artist
\* whose name equals the value of one of the user's exclude_artist filters
\* case-insensitively, on the cache path as on the scoring path.
C11_ExcludedArtistNeverReturned ==
    ops < MaxOps =>
        \A n \in ArtistNames, t \in TopNs, q \in Requests :
            ExclusionHonoured(get_related_artists(Session(q[1], q[2]), n, t), q[2])
\* get_related_artists answered from the cache and the user's filter removed
\* every cached target from the result
C11_Witness ==
    /\ last.op = "get_related_artists"
    /\ ~last.raised
    /\ last.scored = 0
    /\ last.out.related # << >>
    /\ last.out.result = << >>
    /\ \A i \in 1..Len(last.out.related) : Lower(artists[last.out.related[i]].name) = F_abba

\* a filter list with a filter of every kind the three filter passes read
F_post == <<"p", "o", "s", "t">>
F_joga == <<"j", "o", "g", "a">>
F_seconds == <<"2", "0", "0">>
EveryFilter ==
    << [filter_type |-> "exclude_artist", value |-> F_abba],
       [filter_type |-> "exclude_genre", value |-> D_Pop],
       [filter_type |-> "exclude_album", value |-> F_post],
       [filter_type |-> "exclude_track", value |-> F_joga],
       [filter_type |-> "min_duration", value |-> F_seconds] >>
\* two runs end with the same rows and the same cached edges
SameStore(r1, r2) == StoreOf(r1.c) = StoreOf(r2.c)
\* C12: from every reachable store and under every plan, two runs of the same
\* get_related_* call, one for a user without filters and one for a user with
\* a filter of every kind, leave the same artists, albums, tracks and cached
\* edges.
C12_FiltersLeaveStoreAlone ==
    ops < MaxOps =>
        \A p \in Plans :
            /\ \A n \in ArtistNames :
                   SameStore(get_related_artists(Session(p, << >>), n, 2),
                             get_related_artists(Session(p, EveryFilter), n, 2))
            /\ \A n \in AlbumTitles, h \in ArtistHints :
                   SameStore(get_related_albums(Session(p, << >>), n, h, 2),
                             get_related_albums(Session(p, EveryFilter), n, h, 2))
            /\ \A n \in TrackTitles, h \in ArtistHints :
                   SameStore(get_related_tracks(Session(p, << >>), n, h, 2),
                             get_related_tracks(Session(p, EveryFilter), n, h, 2))
\* get_related_artists scored the candidates, cached the edges to all the
\* targets it ranked and returned fewer of them because of the user's filter
C12_Witness ==
    /\ last.op = "get_related_artists"
    /\ ~last.raised
    /\ last.scored > 0
    /\ last.out.related # << >>
    /\ Len(last.out.result) < Len(last.out.related)
    /\ \A i \in 1..Len(last.out.related) :
           \E j \in 1..Len(artists[last.out.resolved].related) :
               artists[last.out.resolved].related[j] = last.out.related[i]

\* a committed row carries exactly the requested name
ExactArtist(n) == \E i \in 1..Len(artists) : artists[i].name = n
ExactAlbum(n) == \E i \in 1..Len(albums) : albums[i].title = n
ExactTrack(n) == \E i \in 1..Len(tracks) : tracks[i].title = n
\* a committed row matches the requested name under the fuzzy rule
FuzzyArtist(n) == \E i \in 1..Len(artists) : ArtistsMatch(artists[i].name, n)
FuzzyAlbum(n) == \E i \in 1..Len(albums) : AlbumsMatch(albums[i].title, n)
FuzzyTrack(n) == \E i \in 1..Len(tracks) : TracksMatch(tracks[i].title, n)
\* the order of one resolution r: a provider was called only when no row had
\* the name exactly or fuzzily, and when a row had the name exactly the first
\* query of the session was the only one
Ordered(r, exact, fuzzy, unscoped) ==
    /\ r.c.calls # << >> => ~exact /\ ~fuzzy
    /\ exact /\ unscoped /\ ~r.exc => r.c.reads = 1
\* C13: from every reachable store, for every name, hint and plan, a
\* resolution of an artist, an album or a track calls a provider only when
\* the store holds no row with the name, exactly or fuzzily, and runs the
\* fuzzy scan only when the exact-name query found nothing.
C13_StrictResolutionOrder ==
    ops < MaxOps =>
        \A p \in Plans :
            /\ \A n \in ArtistNames :
                   Ordered(find_or_create_artist(Session(p, << >>), n),
                           ExactArtist(n), FuzzyArtist(n), TRUE)
            /\ \A n \in AlbumTitles, h \in ArtistHints :
                   Ordered(find_or_create_album(Session(p, << >>), n, h),
                           ExactAlbum(n), FuzzyAlbum(n), h = NoneText)
            /\ \A n \in TrackTitles, h \in ArtistHints :
                   Ordered(find_or_create_track(Session(p, << >>), n, h, NoneText),
                           ExactTrack(n), FuzzyTrack(n), h = NoneText)
\* a request found no row for its name, called a provider and created the
\* row, and the store holds rows of the same kind that its lookups passed over
C13_Witness ==
    /\ last.op \in GetRelatedOps
    /\ ~last.raised
    /\ last.out.resolved # 0
    /\ last.calls # << >>
    /\ last.created > 0
    /\ Len(RowsFor(last.op)) > last.created

\* the album row a resolution returned carries what the merge of the Spotify
\* and the Discogs record promises
MergedAlbum(row, spotify_data) ==
    /\ ~Falsy(row.spotify_id)
    /\ ~Falsy(row.discogs_id)
    /\ row.release_year = DigitsValue(Take(spotify_data.release_date, 4))
    /\ row.image_url = spotify_data.images[1]
\* C14: on the empty store, for a user with every provider available, when
\* Spotify and Discogs both hold a record of the album, its resolution leaves
\* exactly one album row with both provider ids, Spotify's release year and
\* Spotify's first image, and a second resolution adds no row.
C14_AlbumMergedFromBothProviders ==
    ops = 0 =>
        \A n \in AlbumTitles, h \in ArtistHints :
            SpotifyAlbumCatalog(n, h).found /\ DiscogsReleaseCatalog(h, n).found =>
                LET r1 == find_or_create_album(Session(NoFault, << >>), n, h)
                    r2 == find_or_create_album(Again(r1, NoFault), n, h)
                IN  /\ ~r1.exc /\ r1.v # 0
                    /\ Len(r1.c.albums) = 1
                    /\ MergedAlbum(r1.c.albums[r1.v], SpotifyAlbumCatalog(n, h))
                    /\ ~r2.exc /\ r2.v = r1.v
                    /\ Len(r2.c.albums) = 1

ScoreOps ==
    { "_compute_artist_similarity", "_compute_album_similarity", "_compute_track_similarity" }
\* 0.0 <= x <= 1.0
InUnitInterval(x) == ~FLess(x, Zero) /\ ~FLess(One, x)
\* C15: for every pair of artist rows, album rows and track rows, with every
\* combination of present and absent provider ids, descriptions, release
\* years and durations, the value _compute_artist_similarity,
\* _compute_album_similarity or _compute_track_similarity returned lies
\* between 0.0 and 1.0.
C15_ScoresInUnitInterval ==
    last.op \in ScoreOps => InUnitInterval(last.out)
\* the artist score of a pair whose terms add up to more than 1.0 was computed
C15_Witness ==
    /\ last.op = "_compute_artist_similarity"
    /\ last.out = One
    /\ FLess(One, UncappedArtistSimilarity(Session(NoFault, << >>), 1, 2))

\* an edge list names each target at most once
NoDuplicate(related) ==
    \A i, j \in 1..Len(related) : related[i] = related[j] => i = j
\* C16: in every reachable store, after any sequence of get_related_*,
\* refresh_*_relationships and get_combined_nodes calls, the cached edge list
\* of every artist, album and track names each target at most once.
C16_EdgeCacheHasNoDuplicates ==
    /\ \A i \in 1..Len(artists) : NoDuplicate(artists[i].related)
    /\ \A i \in 1..Len(albums) : NoDuplicate(albums[i].related)
    /\ \A i \in 1..Len(tracks) : NoDuplicate(tracks[i].related)
\* a get_related_* call found fewer cached edges than asked for, scored the
\* candidates again, ranked a target that was cached already and committed
C16_Witness ==
    /\ last.op \in GetRelatedOps
    /\ ~last.raised
    /\ last.scored > 0
    /\ ~last.commitFailed
    /\ \E i \in 1..Len(last.out.related), j \in 1..Len(last.cached) :
           last.out.related[i] = last.cached[j]

\* the edges row id of a table had cached when the request began
EdgesBefore(table, id) ==
    IF id \in 1..Len(Committed[table]) THEN Committed[table][id].related ELSE << >>
\* the run r, whose cache write failed, did not raise, rolled back, returned
\* what the run r0 without the fault returned, and left the store of r0
\* without the new edges of the entity it resolved
BestEffort(r, r0, table) ==
    /\ r.c.commitFailed
    /\ ~r.exc
    /\ r.c.rollbacks > 0
    /\ r.c.sess = "active"
    /\ r.v = r0.v
    /\ StoreOf(r.c) = [StoreOf(r0.c) EXCEPT ![table][r.v.resolved].related =
                                              EdgesBefore(table, r.v.resolved)]
ArtistsBestEffort(f, n, t) ==
    LET r0 == get_related_artists(Session(NoFault, f), n, t)
    IN  r0.c.scored > 0 =>
            BestEffort(get_related_artists(Session(FailingCacheWrite(r0), f), n, t), r0, "artists")
AlbumsBestEffort(f, n, h, t) ==
    LET r0 == get_related_albums(Session(NoFault, f), n, h, t)
    IN  r0.c.scored > 0 =>
            BestEffort(get_related_albums(Session(FailingCacheWrite(r0), f), n, h, t), r0, "albums")
TracksBestEffort(f, n, h, t) ==
    LET r0 == get_related_tracks(Session(NoFault, f), n, h, t)
    IN  r0.c.scored > 0 =>
            BestEffort(get_related_tracks(Session(FailingCacheWrite(r0), f), n, h, t), r0, "tracks")
\* C17: from every reachable store, for every get_related_* request and
\* filter list, when the request scores candidates and the commit of the
\* freshly computed edges fails, the call rolls back, does not raise and
\* returns the list the same call returns when the commit succeeds: the
\* computed targets, filtered and cut to top_n.
C17_CacheWriteIsBestEffort ==
    ops < MaxOps =>
        \A f \in FilterLists, t \in TopNs :
            /\ \A n \in ArtistNames : ArtistsBestEffort(f, n, t)
            /\ \A n \in AlbumTitles, h \in ArtistHints : AlbumsBestEffort(f, n, h, t)
            /\ \A n \in TrackTitles, h \in ArtistHints : TracksBestEffort(f, n, h, t)
\* the commit of freshly computed edges failed, the call rolled back and
\* returned the targets it had ranked, and the entity's cache is as it was
C17_Witness ==
    /\ last.op \in GetRelatedOps
    /\ ~last.raised
    /\ last.commitFailed
    /\ last.scored > 0
    /\ last.rollbacks > 0
    /\ last.out.result # << >>
    /\ RowsFor(last.op)[last.out.resolved].related = last.cached

\* C18: for every name built from articles, ordinary words, edition suffixes
\* and parenthesized spans, and for both values of strict, normalize applied
\* to its own result returns that result.
C18_NormalizeIdempotent ==
    last.op = "normalize" /\ ops = MaxNormalize => last.out.value = last.out.prev

\* the request was refused before any work: it raised, called no provider,
\* issued no commit and left the store as it was
RejectedAtOnce(r) ==
    /\ r.exc
    /\ r.c.calls = << >>
    /\ r.c.commits = 0
    /\ StoreOf(r.c) = Committed
\* a name that identifies nothing: the empty string and None
MissingNames == { << >>, NoneText }
\* C19: from every reachable store, a get_related_* call whose name or title
\* is empty or absent, and a get_combined_nodes call without any name, is
\* refused with an error before a provider is called or a row or an edge is
\* written.
C19_MissingNameRejected ==
    ops < MaxOps =>
        \A p \in ProviderPlans, missing \in MissingNames :
            /\ RejectedAtOnce(get_related_artists(Session(p, << >>), missing, DefaultTopN))
            /\ RejectedAtOnce(get_related_albums(Session(p, << >>), missing, NoneText, DefaultTopN))
            /\ RejectedAtOnce(get_related_tracks(Session(p, << >>), missing, NoneText, DefaultTopN))
            /\ RejectedAtOnce(get_combined_nodes(Session(p, << >>), missing, missing, missing))

\* C20: for every track title t and every parenthesized, bracketed or
\* dash-suffixed span that contains a version indicator word,
\* tracks_match(t, t followed by the span) is true.
C20_VersionedTitleMatches ==
    last.op = "tracks_match" => last.out.value

\* C21: when two concurrent requests resolve the same album title with the
\* same artist hint and both miss the lookup before either commits, the
\* store ends with at most one album row for that title and artist.
C21_OneAlbumPerTitleAndArtist ==
    \A i, j \in 1..Len(albums) :
        albums[i].title = albums[j].title /\ albums[i].artist_id = albums[j].artist_id => i = j

\* the providers in the order of their priority
Priority == << "spotify", "lastfm", "discogs" >>
PriorityOf(provider) == CHOOSE i \in 1..Len(Priority) : Priority[i] = provider
\* the calls were made one after the other in priority order
InPriorityOrder(calls) ==
    \A i, j \in 1..Len(calls) : i < j => PriorityOf(calls[i]) < PriorityOf(calls[j])
\* the provider is available under the plan and holds a record of the artist
ArtistReturned(p, provider, n) ==
    /\ provider \in p.avail
    /\ provider \notin p.down
    /\ IF provider = "spotify" THEN SpotifyArtistCatalog(n).found
       ELSE IF provider = "lastfm" THEN LastfmArtistCatalog(n).found
       ELSE DiscogsArtistCatalog(n).found
\* the provider phase of an artist resolution: a provider is called only when
\* no provider of higher priority returned data
ArtistShortCircuit(p, n) ==
    LET calls == SearchArtistProviders(Session(p, << >>), n).c.calls
    IN  /\ InPriorityOrder(calls)
        /\ \A i \in 1..Len(calls), h \in Providers :
               PriorityOf(h) < PriorityOf(calls[i]) => ~ArtistReturned(p, h, n)
\* the provider phases of an album and of a track resolution
GatheredAlbum(p, n, h) ==
    DiscogsAlbumStep(LastfmAlbumStep(SpotifyAlbumStep(Ret(Session(p, << >>), Aggregated(n, h)))))
GatheredTrack(p, n, h) ==
    LastfmTrackStep(SpotifyTrackStep(Ret(Session(p, << >>), AggregatedTrack(n, h, NoneText))))
\* Last.fm was called only when Spotify returned no data
LastfmAfterMiss(g) == InSeq("lastfm", g.c.calls) => ~g.v.spotify_data.found
\* Spotify and Last.fm are each called when available (Last.fm when an artist
\* name is given), in this order, whatever Spotify returned
EveryProviderInOrder(g, p, h) ==
    g.c.calls = SelectSeq(<< "spotify", "lastfm" >>,
                          LAMBDA x : x \in p.avail /\ (x = "lastfm" => ~FalsyText(h)))
\* C22 (as the code has it): in every reachable store and under every plan,
\* the provider phase of an artist resolution calls the providers in priority
\* order and calls one only when no provider of higher priority returned
\* data; the provider phase of an album or a track resolution calls Spotify
\* and then Last.fm whenever they are available, whether or not Spotify
\* returned data.
C22_ArtistsShortCircuitAlbumsAggregate ==
    ops < MaxOps =>
        \A p \in ProviderPlans :
            /\ \A n \in ArtistNames : ArtistShortCircuit(p, n)
            /\ \A n \in AlbumTitles, h \in ArtistHints :
                   EveryProviderInOrder(GatheredAlbum(p, n, h), p, h)
            /\ \A n \in TrackTitles, h \in ArtistHints :
                   EveryProviderInOrder(GatheredTrack(p, n, h), p, h)
\* C22 (as stated): within one resolution of an artist, an album or a track
\* the providers are called in priority order and a provider is called only
\* when every provider of higher priority was unavailable or returned no data.
C22_ProvidersShortCircuit ==
    ops < MaxOps =>
        \A p \in ProviderPlans :
            /\ \A n \in ArtistNames : ArtistShortCircuit(p, n)
            /\ \A n \in AlbumTitles, h \in ArtistHints : LastfmAfterMiss(GatheredAlbum(p, n, h))
            /\ \A n \in TrackTitles, h \in ArtistHints : LastfmAfterMiss(GatheredTrack(p, n, h))
\* an album was created from Spotify's record by a request that called
\* Last.fm after Spotify had returned the album
C22_Witness ==
    /\ last.op = "get_related_albums"
    /\ ~last.raised
    /\ last.created > 0
    /\ Len(last.calls) >= 2 /\ last.calls[1] = "spotify" /\ last.calls[2] = "lastfm"
    /\ last.out.resolved = Len(albums)
    /\ ~Falsy(albums[last.out.resolved].spotify_id)

\* the first of the sources, in the order Spotify, Last.fm, Discogs, that
\* carries a name, the query string when none does
NameOf(record, field) == IF record.found THEN record[field] ELSE NoneText
FirstNamed(names, query) ==
    IF \E i \in 1..Len(names) : names[i] # NoneText
    THEN names[CHOOSE i \in 1..Len(names) :
                   names[i] # NoneText /\ \A h \in 1..(i - 1) : names[h] = NoneText]
    ELSE query
\* C23: the title of a merged album is Spotify's name when Spotify returned
\* one, otherwise Last.fm's name when present, otherwise Discogs' title when
\* present, otherwise the query string, and likewise for a track with Spotify
\* and Last.fm; a record that is present but carries no name does not block
\* the fall-through.
C23_TitlePrecedence ==
    /\ last.op = "merge_album" =>
           last.out.fields.title =
               FirstNamed(<< NameOf(last.out.agg.spotify_data, "name"),
                             NameOf(last.out.agg.lastfm_data, "name"),
                             NameOf(last.out.agg.discogs_data, "title") >>, last.out.agg.title)
    /\ last.op = "merge_track" =>
           last.out.fields.title =
               FirstNamed(<< NameOf(last.out.agg.spotify_data, "name"),
                             NameOf(last.out.agg.lastfm_data, "name") >>, last.out.agg.title)
\* C23 with the records that carry no name left out: the precedence holds
\* when every present record carries a name
C23_TitlePrecedenceOfNamedRecords ==
    /\ last.op \in { "merge_album", "merge_track" }
    /\ \A f \in { "spotify_data", "lastfm_data" } :
           last.out.agg[f].found => last.out.agg[f].name # NoneText
    /\ last.op = "merge_album" /\ last.out.agg.discogs_data.found
           => last.out.agg.discogs_data.title # NoneText
    => C23_TitlePrecedence

\* the usable images of the three providers, in the order of preference
SpotifyImageOf(agg) ==
    IF agg.spotify_data.found /\ agg.spotify_data.images # << >>
    THEN agg.spotify_data.images[1] ELSE NULL
LastfmImageOf(agg) ==
    IF agg.lastfm_data.found
    THEN LastNonEmpty(SelectSeq(agg.lastfm_data.image, LAMBDA u : u # "")) ELSE NULL
DiscogsImageOf(agg) ==
    IF ~agg.discogs_data.found THEN NULL
    ELSE IF ~Falsy(agg.discogs_data.cover_image) THEN agg.discogs_data.cover_image
    ELSE IF ~Falsy(agg.discogs_data.thumb) THEN agg.discogs_data.thumb
    ELSE NULL
OwnedExactHit(rows, r, title, artist) ==
    r.v # 0 /\ rows[r.v].title = title => rows[r.v].artist_id = artist
\* C25: in every reachable store, when the artist hint of an album or track
\* lookup resolves to a known artist, a row returned under the exact title
\* belongs to that artist.
C25_ExactHitWithinArtistScope ==
    \A h \in ArtistNames :
        LET known == find_existing_artist_fuzzy(Session(NoFault, << >>), h).v
        IN  known # 0 =>
                /\ \A n \in AlbumTitles :
                       OwnedExactHit(albums, find_existing_album_fuzzy(Session(NoFault, << >>), n, h),
                                     n, known)
                /\ \A n \in TrackTitles :
                       OwnedExactHit(tracks, find_existing_track_fuzzy(Session(NoFault, << >>), n, h),
                                     n, known)

\* candidate a stands before candidate b in the ranking: a higher score, or
\* the same score and an earlier place in the scan (the scan is in id order)
RankedBefore(Score(_), a, b) ==
    \/ FLess(Score(b), Score(a))
    \/ ~FLess(Score(a), Score(b)) /\ a < b
\* result is the ranking of the candidates under Score, cut to top_n
FreshRanking(result, candidates, Score(_), top_n) ==
    LET survivors == { i \in Range(candidates) : FLess(MinScore, Score(i)) }
    IN  /\ Range(result) \subseteq survivors
        /\ Len(result) = IF Cardinality(survivors) < top_n THEN Cardinality(survivors) ELSE top_n
        /\ \A i, j \in 1..Len(result) : i < j => RankedBefore(Score, result[i], result[j])
        /\ \A x \in survivors \ Range(result), i \in 1..Len(result) :
               RankedBefore(Score, result[i], x)
\* C26: in every store of a target row and three candidates, for every
\* target row of it and every top_n, the fresh computation returns only
\* candidates that score more than 0.1, ordered by non-increasing score with
\* equal scores in scan order, and returns the top_n first of that ordering.
C26_FreshRanking ==
    LET c == Session(NoFault, << >>)
    IN  \A top_n \in RankTopNs :
            /\ \A t \in 1..Len(artists) :
                   FreshRanking(compute_artist_relationships(c, t, top_n).v,
                                ArtistCandidates(c, t),
                                LAMBDA i : compute_artist_similarity(c, t, i), top_n)
            /\ \A t \in 1..Len(albums) :
                   FreshRanking(compute_album_relationships(c, t, top_n).v,
                                AlbumCandidates(c, t),
                                LAMBDA i : compute_album_similarity(c, t, i), top_n)
            /\ \A t \in 1..Len(tracks) :
                   FreshRanking(compute_track_relationships(c, t, top_n).v,
                                TrackCandidates(c, t),
                                LAMBDA i : compute_track_similarity(c, t, i), top_n)
\* a fresh computation over albums has just returned the later of two
\* candidates above the threshold, which scores higher than the earlier
\* one, left the earlier one out as top_n is 1, and discarded a third that
\* scores 0.1 or less
C26_Witness ==
    LET Score(i) == compute_album_similarity(Session(NoFault, << >>), 1, i)
    IN  /\ last.op = "_compute_album_relationships"
        /\ last.out.top_n = 1
        /\ last.out.result = << 3 >>
        /\ FLess(MinScore, Score(2))
        /\ FLess(Score(2), Score(3))
        /\ ~FLess(MinScore, Score(4))
\* a fresh computation over tracks has just returned two candidates of
\* equal score in scan order
C26_TieWitness ==
    LET Score(i) == compute_track_similarity(Session(NoFault, << >>), 1, i)
    IN  /\ last.op = "_compute_track_relationships"
        /\ last.out.result = << 2, 4 >>
        /\ Score(2) = Score(4)
        /\ FLess(Score(3), Score(2))

\* the resolver invocations never nested deeper than levels, and all have
\* been left
NestedWithin(r, levels) == r.c.depth = 0 /\ r.c.nesting <= levels
\* the resolution ended with Found or Created (the id of a stored row) or
\* with NotFound (no row), and not with an exception
Terminal(r, rows) == ~r.exc /\ r.v \in 0..Len(rows)
\* in every reachable store and under every plan the resolver invocations
\* nest one level deep for an artist, at most two for an album and at most
\* three for a track
ResolutionNesting ==
    ops < MaxOps =>
        \A p \in Plans :
            /\ \A n \in ArtistNames :
                   NestedWithin(find_or_create_artist(Session(p, << >>), n), 1)
            /\ \A n \in AlbumTitles, h \in ArtistHints :
                   NestedWithin(find_or_create_album(Session(p, << >>), n, h), 2)
            /\ \A n \in TrackTitles, h \in ArtistHints :
                   NestedWithin(find_or_create_track(Session(p, << >>), n, h, NoneText), 3)
\* C27: in every reachable store and under every plan, every artist, album
\* or track resolution ends with Found, Created or NotFound, and the resolver
\* invocations nest at most three levels deep (one for an artist, two for an
\* album, three for a track).
C27_ResolutionTerminates ==
    ops < MaxOps =>
        \A p \in Plans :
            /\ \A n \in ArtistNames :
                   LET r == find_or_create_artist(Session(p, << >>), n)
                   IN  Terminal(r, r.c.artists) /\ NestedWithin(r, 1)
            /\ \A n \in AlbumTitles, h \in ArtistHints :
                   LET r == find_or_create_album(Session(p, << >>), n, h)
                   IN  Terminal(r, r.c.albums) /\ NestedWithin(r, 2)
            /\ \A n \in TrackTitles, h \in ArtistHints :
                   LET r == find_or_create_track(Session(p, << >>), n, h, NoneText)
                   IN  Terminal(r, r.c.tracks) /\ NestedWithin(r, 3)

\* no two rows hold the same non-empty id of the provider
UniqueIds(rows, field) ==
    \A i, j \in 1..Len(rows) :
        ~Falsy(rows[i][field]) /\ rows[i][field] = rows[j][field] => i = j
\* C28: in every store reached by resolutions made one after the other, no
\* two artist rows, no two album rows and no two track rows hold the same
\* non-empty spotify_id, lastfm_id or discogs_id.
C28_ProviderIdsUnique ==
    /\ \A field \in { "spotify_id", "lastfm_id", "discogs_id" } :
           UniqueIds(artists, field) /\ UniqueIds(albums, field)
    /\ \A field \in { "spotify_id", "lastfm_id" } : UniqueIds(tracks, field)

\* the second of two consecutive calls returns what the first returned, when
\* the first created no row
SameRelated(r1, r2) ==
    ~r1.exc /\ ~r2.exc /\ Rows(StoreOf(r1.c)) = Rows(Committed) => r2.v.result = r1.v.result
SameFill ==
    /\ \A s \in Sessions : inflight[s].pc = "done"
    /\ inflight[1].op = inflight[2].op
    /\ inflight[1].name = inflight[2].name
    /\ \E s \in Sessions : inflight[s].conflict
\* C30: when two get_related_* requests run at the same time, the cached edge
\* list of every artist, album and track names each target at most once, and
\* every request that has ended returned the list it computed over the rows
\* it saw, without raising; a request whose cache write was rejected rolled
\* back and its session is usable.
C30_ConcurrentCacheFill ==
    /\ \A i \in 1..Len(artists) : NoDuplicate(artists[i].related)
    /\ \A i \in 1..Len(albums) : NoDuplicate(albums[i].related)
    /\ \A i \in 1..Len(tracks) : NoDuplicate(tracks[i].related)
    /\ \A s \in Sessions :
           inflight[s].pc = "done" =>
               /\ ~inflight[s].raised
               /\ inflight[s].result = Seen(s).v.result
               /\ inflight[s].conflict => inflight[s].rollbacks = 1 /\ inflight[s].sess = "active"
\* both requests asked for the related tracks of the same track, both
\* computed the same two edges, one commit was rejected, and both returned
\* the two tracks
C30_Witness ==
    /\ SameFill
    /\ inflight[1].op = "get_related_tracks"
    /\ inflight[1].top_n = 2 /\ inflight[2].top_n = 2
    /\ Len(inflight[1].result) = 2
    /\ inflight[1].result = inflight[2].result
    /\ \E i \in 1..Len(tracks) : tracks[i].related = inflight[1].result
====
